---- MODULE Spec2Model ----
(***************************************************************************)
(* A model of command-stream's execution core (rust/src): ProcessRunner    *)
(* (lib.rs), Pipeline (pipeline.rs), the virtual commands they dispatch to *)
(* (commands/), and the spawned shell process with its stdio pipes.        *)
(*                                                                         *)
(* Strings are sequences of one-character strings, so that splitting on    *)
(* whitespace and substring scans are computed as the code computes them.  *)
(* Option<T> is a sequence of length 0 (None) or 1 (Some).                 *)
(***************************************************************************)
EXTENDS Integers, Sequences, FiniteSets, TLC

\* ------------------------------------------------------------------ bounds

\* Capacity, in bytes, of one OS pipe between the engine and a child.
PipeCap == 2
\* Longest pipeline the caller builds with Pipeline::add.
MaxStages == 3
\* Command strings handed to the parser have at most this many characters
\* (longer ones are listed), values handed to quote at most this many.
MaxCommandLen == 4
MaxValueLen == 3
\* Strings handed to needs_real_shell have at most this many characters
\* (a longer one is listed); the arguments written after `echo ` have at
\* most this many.
MaxScanLen == 3
MaxEchoLen == 5
\* A StreamEmitter gets at most this many registrations (on, once) and
\* this many calls of emit.
MaxListeners == 3
MaxEmits == 2
\* A GlobalState hands out at most this many runner ids and is reset at
\* most this many times.
MaxRunners == 3
MaxResets == 1

\* ------------------------------------------------------- program constants

\* mpsc::channel(1024) in ProcessRunner::new.
ChannelCapacity == 1024
\* max_iterations of yes without a streaming sink.
max_iterations == 1000
\* Exit code reported on cancellation.
CANCELLED_CODE == 130
\* status.code().unwrap_or(-1)
NO_STATUS_CODE == -1

\* ----------------------------------------------------------------- strings

None == <<>>
Some(x) == <<x>>
IsSome(o) == Len(o) = 1
Unwrap(o) == o[1]

SP == " "
NL == "\n"
TAB == "\t"
CR == "\r"
BSL == "\\"
\* The backquote character U+0060, which a string literal of this notation
\* cannot hold: one symbol stands for it.
BACKTICK == "backquote"

IsWhitespace(c) == c \in {SP, NL, TAB, CR}

RECURSIVE Concat(_)
\* Vec<String>::concat / repeated push_str
Concat(ss) == IF ss = <<>> THEN <<>> ELSE Head(ss) \o Concat(Tail(ss))

RECURSIVE Join(_, _)
\* [String]::join(sep)
Join(ss, sep) ==
    IF ss = <<>> THEN <<>>
    ELSE IF Len(ss) = 1 THEN ss[1]
    ELSE ss[1] \o sep \o Join(Tail(ss), sep)

\* str::starts_with at offset i (1-based)
MatchesAt(s, pat, i) ==
    /\ i + Len(pat) - 1 <= Len(s)
    /\ \A k \in 1..Len(pat) : s[i + k - 1] = pat[k]

\* str::contains
Contains(s, pat) == \E i \in 1..(Len(s) + 1) : MatchesAt(s, pat, i)

RECURSIVE SplitFrom(_, _, _)
SplitFrom(s, i, cur) ==
    IF i > Len(s) THEN (IF cur = <<>> THEN <<>> ELSE <<cur>>)
    ELSE IF IsWhitespace(s[i])
         THEN (IF cur = <<>> THEN <<>> ELSE <<cur>>) \o SplitFrom(s, i + 1, <<>>)
         ELSE SplitFrom(s, i + 1, Append(cur, s[i]))

\* str::split_whitespace().collect()
split_whitespace(s) == SplitFrom(s, 1, <<>>)

\* The first word without an opening parenthesis in front of it.
first_word_in_subshell(s) ==
    LET w == IF split_whitespace(s) = <<>> THEN <<>> ELSE split_whitespace(s)[1]
    IN  IF w # <<>> /\ w[1] = "(" THEN Tail(w) ELSE w
\* cmd.split_whitespace().next().unwrap_or("")
first_word(s) == IF split_whitespace(s) = <<>> THEN <<>> ELSE split_whitespace(s)[1]

\* parts.iter().skip(1)
args_of(s) == IF split_whitespace(s) = <<>> THEN <<>> ELSE Tail(split_whitespace(s))

RECURSIVE ReplaceFrom(_, _, _, _)
ReplaceFrom(s, pat, rep, i) ==
    IF i > Len(s) THEN <<>>
    ELSE IF MatchesAt(s, pat, i) THEN rep \o ReplaceFrom(s, pat, rep, i + Len(pat))
    ELSE <<s[i]>> \o ReplaceFrom(s, pat, rep, i + 1)

\* str::replace(pat, rep), pat non-empty
Replace(s, pat, rep) == ReplaceFrom(s, pat, rep, 1)

Digits == <<"0", "1", "2", "3", "4", "5", "6", "7", "8", "9">>
IsDigit(c) == \E d \in 1..10 : Digits[d] = c
DigitVal(c) == (CHOOSE d \in 1..10 : Digits[d] = c) - 1

RECURSIVE NatToString(_)
NatToString(n) ==
    IF n < 10 THEN <<Digits[n + 1]>>
    ELSE NatToString(n \div 10) \o <<Digits[(n % 10) + 1]>>

\* format!("{}", n as i64)
ToDecimal(n) == IF n < 0 THEN <<"-">> \o NatToString(0 - n) ELSE NatToString(n)

RECURSIVE DigitsToNat(_, _)
DigitsToNat(s, acc) ==
    IF s = <<>> THEN acc ELSE DigitsToNat(Tail(s), acc * 10 + DigitVal(Head(s)))

\* Whether s is an integer literal: an optional '-' and one or more digits.
IsIntLiteral(s) ==
    LET body == IF s # <<>> /\ s[1] = "-" THEN Tail(s) ELSE s
    IN  body # <<>> /\ \A k \in 1..Len(body) : IsDigit(body[k])

\* str::parse of an integer literal
ParseInt(s) ==
    IF s[1] = "-" THEN 0 - DigitsToNat(Tail(s), 0) ELSE DigitsToNat(s, 0)

\* ----------------------------------------------------------- CommandResult

CommandResult(out, err, c) == [stdout |-> out, stderr |-> err, code |-> c]
\* CommandResult::success
success(out) == CommandResult(out, <<>>, 0)
\* CommandResult::success_empty
success_empty == CommandResult(<<>>, <<>>, 0)
\* CommandResult::error
error(err) == CommandResult(<<>>, err, 1)
\* CommandResult::error_with_code
error_with_code(err, c) == CommandResult(<<>>, err, c)

M_missing_operand == <<":", " ", "m", "i", "s", "s", "i", "n", "g", " ", "o", "p", "e", "r", "a", "n", "d">>
M_seq_invalid == <<"s", "e", "q", ":", " ", "i", "n", "v", "a", "l", "i", "d", " ", "f", "l", "o", "a", "t", "i", "n", "g", " ", "p", "o", "i", "n", "t", " ", "a", "r", "g", "u", "m", "e", "n", "t", ":", " ", "'">>
M_seq_zero == <<"s", "e", "q", ":", " ", "z", "e", "r", "o", " ", "i", "n", "c", "r", "e", "m", "e", "n", "t", "\n">>
M_no_commands == <<"N", "o", " ", "c", "o", "m", "m", "a", "n", "d", "s", " ", "i", "n", " ", "p", "i", "p", "e", "l", "i", "n", "e">>

\* VirtualUtils::missing_operand_error
missing_operand_error(name) == error(name \o M_missing_operand)

\* ------------------------------------------------- shell-capability scan

\* The markers without the one of a single-character glob.
unsupported_without_question_mark ==
    << <<BACKTICK>>, <<"$", "(">>, <<"$", "{">>, <<"~">>, <<"*">>, <<"[">>,
       <<"2", ">">>, <<"&", ">">>, <<">", "&">>, <<"<", "<">>, <<"<", "<", "<">> >>

unsupported ==
    << <<BACKTICK>>, <<"$", "(">>, <<"$", "{">>, <<"~">>, <<"*">>, <<"?">>, <<"[">>,
       <<"2", ">">>, <<"&", ">">>, <<">", "&">>, <<"<", "<">>, <<"<", "<", "<">> >>

\* needs_real_shell: a substring scan of the whole command
needs_real_shell(command) ==
    \E k \in 1..Len(unsupported) : Contains(command, unsupported[k])

\* ------------------------------------------------------ virtual commands

N_echo == <<"e", "c", "h", "o">>
N_pwd == <<"p", "w", "d">>
N_cd == <<"c", "d">>
N_true == <<"t", "r", "u", "e">>
N_false == <<"f", "a", "l", "s", "e">>
N_sleep == <<"s", "l", "e", "e", "p">>
N_cat == <<"c", "a", "t">>
N_ls == <<"l", "s">>
N_mkdir == <<"m", "k", "d", "i", "r">>
N_rm == <<"r", "m">>
N_touch == <<"t", "o", "u", "c", "h">>
N_cp == <<"c", "p">>
N_mv == <<"m", "v">>
N_basename == <<"b", "a", "s", "e", "n", "a", "m", "e">>
N_dirname == <<"d", "i", "r", "n", "a", "m", "e">>
N_env == <<"e", "n", "v">>
N_exit == <<"e", "x", "i", "t">>
N_which == <<"w", "h", "i", "c", "h">>
N_yes == <<"y", "e", "s">>
N_seq == <<"s", "e", "q">>
N_test == <<"t", "e", "s", "t">>

\* The names matched by try_virtual_command (exact, case-sensitive).
BuiltinNames ==
    {N_echo, N_pwd, N_cd, N_true, N_false, N_sleep, N_cat,
     N_ls, N_mkdir, N_rm, N_touch, N_cp, N_mv, N_basename,
     N_dirname, N_env, N_exit, N_which, N_yes, N_seq, N_test}

\* The handlers that loop and poll ctx.is_cancelled(); they run step by step.
LoopingNames == {N_yes, N_seq}

\* Outcomes of the handlers that act on the file system or the environment
\* (pwd, cd, ls, mkdir, ...): chosen by the environment, shaped as the
\* handlers shape them (success: no stderr; error: no stdout, code 1).
ExtResults == { success(<<"o", "\n">>), error(<<"!", "\n">>) }

\* echo: whether arg is a flag word (-n, -e, -E and combinations)
echo_is_flag(arg) ==
    /\ Len(arg) > 1
    /\ arg[1] = "-"
    /\ \A k \in 2..Len(arg) : arg[k] \in {"n", "e", "E"}

RECURSIVE echo_flags(_, _, _)
\* echo's flag loop: <<no_newline, interpret_escapes, remaining args>>
echo_flags(args, no_newline, interpret_escapes) ==
    IF args # <<>> /\ echo_is_flag(args[1])
    THEN LET a == args[1]
             nn == no_newline \/ \E k \in 2..Len(a) : a[k] = "n"
             \* the last of e / E in the word decides
             lastE == IF \E k \in 2..Len(a) : a[k] \in {"e", "E"}
                      THEN LET m == CHOOSE k \in 2..Len(a) :
                                      /\ a[k] \in {"e", "E"}
                                      /\ \A j \in (k + 1)..Len(a) : a[j] \notin {"e", "E"}
                           IN  a[m] = "e"
                      ELSE interpret_escapes
         IN  echo_flags(Tail(args), nn, lastE)
    ELSE <<no_newline, interpret_escapes, args>>

\* commands::echo
echo(args) ==
    LET f == echo_flags(args, FALSE, FALSE)
        joined == Join(f[3], <<SP>>)
        output == IF f[2]
                  THEN Replace(Replace(Replace(Replace(joined,
                           <<BSL, "n">>, <<NL>>), <<BSL, "t">>, <<TAB>>),
                           <<BSL, "r">>, <<CR>>), <<BSL, BSL>>, <<BSL>>)
                  ELSE joined
    IN  IF f[1] THEN success(output) ELSE success(output \o <<NL>>)

\* commands::exit
exit(args) ==
    error_with_code(<<>>,
        IF args # <<>> /\ IsIntLiteral(args[1]) THEN ParseInt(args[1]) ELSE 0)

\* commands::cat; ext is the outcome of reading the named files
cat(args, stdin, ext) ==
    IF args = <<>>
    THEN IF IsSome(stdin) /\ Unwrap(stdin) # <<>> THEN success(Unwrap(stdin))
         ELSE success_empty
    ELSE ext

\* arg.starts_with('-')
starts_with_dash(arg) == arg # <<>> /\ arg[1] = "-"
\* The arguments that are not flags.
operands(args) == SelectSeq(args, LAMBDA a : ~starts_with_dash(a))

M_missing_file_operand ==
    <<":", " ", "m", "i", "s", "s", "i", "n", "g", " ", "f", "i", "l", "e", " ",
      "o", "p", "e", "r", "a", "n", "d">>
M_missing_destination ==
    <<":", " ", "m", "i", "s", "s", "i", "n", "g", " ", "d", "e", "s", "t", "i", "n", "a",
      "t", "i", "o", "n", " ", "f", "i", "l", "e", " ", "o", "p", "e", "r", "a", "n", "d">>
\* VirtualUtils::invalid_argument_error
invalid_argument_error(name, message) == error(name \o message)

\* What a handler that changes the file system returns once its operand
\* checks have passed: nothing on success, the error of the file system call
\* otherwise.
fs_outcome(ext) == IF ext.code = 0 THEN success_empty ELSE ext

\* commands::mkdir and commands::rm: the first argument check, the flag
\* loop, the second check, then the file system calls
mkdir(args, ext) ==
    IF args = <<>> THEN missing_operand_error(N_mkdir)
    ELSE IF operands(args) = <<>> THEN missing_operand_error(N_mkdir)
    ELSE fs_outcome(ext)
rm(args, ext) ==
    IF args = <<>> THEN missing_operand_error(N_rm)
    ELSE IF operands(args) = <<>> THEN missing_operand_error(N_rm)
    ELSE fs_outcome(ext)

\* commands::touch: flags are skipped inside the loop over the arguments
touch(args, ext) ==
    IF args = <<>> THEN missing_operand_error(N_touch)
    ELSE IF operands(args) = <<>> THEN success_empty
    ELSE fs_outcome(ext)

\* commands::basename and commands::dirname: the path computation is left
\* to ext, which may be any outcome
basename(args, ext) == IF args = <<>> THEN missing_operand_error(N_basename) ELSE ext
dirname(args, ext) == IF args = <<>> THEN missing_operand_error(N_dirname) ELSE ext

\* commands::which: ext is the outcome of the lookups
which(args, ext) ==
    IF args = <<>> THEN missing_operand_error(N_which)
    ELSE IF operands(args) = <<>> THEN error_with_code(<<>>, 1)
    ELSE ext

\* commands::cp and commands::mv
cp(args, ext) ==
    IF Len(args) < 2 THEN invalid_argument_error(N_cp, M_missing_file_operand)
    ELSE IF Len(operands(args)) < 2 THEN invalid_argument_error(N_cp, M_missing_destination)
    ELSE fs_outcome(ext)
mv(args, ext) ==
    IF Len(args) < 2 THEN invalid_argument_error(N_mv, M_missing_file_operand)
    ELSE IF Len(operands(args)) < 2 THEN invalid_argument_error(N_mv, M_missing_destination)
    ELSE fs_outcome(ext)

\* Whether the handler gets as far as its calls that change the file system.
changes_file_system(name, args) ==
    \/ name \in {N_mkdir, N_rm, N_touch} /\ operands(args) # <<>>
    \/ name \in {N_cp, N_mv} /\ Len(operands(args)) >= 2

\* The directory the process starts in, and the one HOME names.
InitialCwd == <<"/", "w">>
HOME == <<"/", "h">>

\* commands::cd: the directory it asks for
cd_target(args) == IF args = <<>> THEN HOME ELSE args[1]

\* commands::cd: what it returns; chdir_ok says whether env::set_current_dir
\* returned Ok, which is up to the file system
cd(args, chdir_ok) == IF chdir_ok THEN success_empty ELSE error(<<"c", "d", ":", " ", "!", NL>>)

\* The result of a handler that returns without looping.
HandlerResult(name, args, stdin, ext) ==
    IF name = N_cd THEN cd(args, ext.code = 0) ELSE
    IF name = N_mkdir THEN mkdir(args, ext) ELSE
    IF name = N_rm THEN rm(args, ext) ELSE
    IF name = N_touch THEN touch(args, ext) ELSE
    IF name = N_basename THEN basename(args, ext) ELSE
    IF name = N_dirname THEN dirname(args, ext) ELSE
    IF name = N_which THEN which(args, ext) ELSE
    IF name = N_cp THEN cp(args, ext) ELSE
    IF name = N_mv THEN mv(args, ext) ELSE
    IF name = N_echo THEN echo(args)
    ELSE IF name = N_true THEN success_empty
    ELSE IF name = N_false THEN error_with_code(<<>>, 1)
    ELSE IF name = N_exit THEN exit(args)
    ELSE IF name = N_cat THEN cat(args, stdin, ext)
    ELSE ext

\* ------------------------------------------------------------------- state

VARIABLES
    scenario,                  \* which API the caller drives: "runner", "pipeline", "direct",
                               \* "lang" (the parser and quoting), "stream" (StreamingRunner)
    VIRTUAL_COMMANDS_ENABLED,  \* the static flag of commands/mod.rs
    cancel_flag,               \* the flag behind a caller-supplied ctx.is_cancelled
    vc,                        \* the virtual command handler in flight
    chan,                      \* the chunks queued in the mpsc channel of ProcessRunner::new
    rx,                        \* its Receiver: "held" (never polled), "draining", "dropped"
    proc,                      \* the spawned shell process and its stdout/stderr pipes
    log,                       \* history: every handler invocation and every spawn, in order
    runner,                    \* the ProcessRunner
    pipeline,                  \* the Pipeline and the locals of Pipeline::run
    ret,                       \* Option of what the last run() returned to the caller
    lang,                      \* a call of tokenize / parse_shell_command / quote in progress
    stream,                    \* a StreamingRunner, its task, its readers and its child
    cwd,                       \* the working directory of this process (std::env)
    emitter,                   \* a StreamEmitter and the tasks that call it
    global_state               \* a GlobalState and the tasks that call it

vars == <<cwd, emitter, global_state, lang, stream, scenario, VIRTUAL_COMMANDS_ENABLED,
          cancel_flag, vc, chan, rx, proc, log, runner, pipeline, ret>>

\* std::env::set_current_dir called by cd: an absolute path replaces the
\* working directory, a relative one is joined to it; nothing changes on Err
set_current_dir(path, chdir_ok) ==
    IF ~chdir_ok THEN cwd
    ELSE IF path # <<>> /\ path[1] = "/" THEN path
    ELSE cwd \o <<"/">> \o path

\* commands::are_virtual_commands_enabled
are_virtual_commands_enabled == VIRTUAL_COMMANDS_ENABLED

\* ------------------------------------------------- virtual command handler

NoVc ==
    [st |-> "none", name |-> <<>>, args |-> <<>>, stdin |-> None,
     output_tx |-> FALSE, is_cancelled |-> FALSE, pc |-> "body",
     output |-> <<>>, n |-> 0, current |-> 0, increment |-> 0, last |-> 0,
     result |-> success_empty, fs |-> FALSE]

\* A handler called with CommandContext {args, stdin, output_tx, is_cancelled};
\* output_tx / is_cancelled say whether the Option is Some.
InvokeHandler(name, args, stdin, output_tx, is_cancelled) ==
    [NoVc EXCEPT !.st = "running", !.name = name, !.args = args, !.stdin = stdin,
                 !.output_tx = output_tx, !.is_cancelled = is_cancelled]

\* CommandContext::is_cancelled: false when no predicate was supplied
ctx_is_cancelled == vc.is_cancelled /\ cancel_flag

VcReturn(res) == [vc EXCEPT !.st = "done", !.result = res]

\* yes: the line it repeats
yes_line == (IF vc.args = <<>> THEN <<"y">> ELSE Join(vc.args, <<SP>>)) \o <<NL>>

\* What yes returns when it observes cancellation.
yes_cancelled_result == error_with_code(<<>>, CANCELLED_CODE)

\* yes with a streaming sink: loop { check; send; sleep }
yes_streaming ==
    \/ /\ vc.pc = "body"
       /\ vc' = [vc EXCEPT !.pc = "check"]
       /\ UNCHANGED chan
    \/ /\ vc.pc = "check"
       /\ vc' = IF ctx_is_cancelled THEN VcReturn(yes_cancelled_result)
                ELSE [vc EXCEPT !.pc = "send"]
       /\ UNCHANGED chan
    \/ /\ vc.pc = "send"
       /\ rx = "dropped"
       \* send fails: break, then the final error_with_code("", 130)
       /\ vc' = VcReturn(error_with_code(<<>>, CANCELLED_CODE))
       /\ UNCHANGED chan
    \/ /\ vc.pc = "send"
       /\ rx # "dropped"
       \* tx.send(..).await completes only when the channel has room
       /\ Len(chan) < ChannelCapacity
       /\ chan' = Append(chan, yes_line)
       /\ vc' = [vc EXCEPT !.pc = "sleep"]
    \/ /\ vc.pc = "sleep"
       /\ vc' = [vc EXCEPT !.pc = "check"]
       /\ UNCHANGED chan

\* yes without a sink: at most max_iterations lines, one iteration per step
yes_buffered ==
    /\ UNCHANGED chan
    /\ IF vc.n < max_iterations
       THEN IF ctx_is_cancelled
            THEN vc' = VcReturn(yes_cancelled_result)
            ELSE vc' = [vc EXCEPT !.output = @ \o yes_line, !.n = @ + 1]
       ELSE vc' = VcReturn(success(vc.output))

\* seq: argument parsing (integer arguments; see seq_args_ok)
seq_args_ok == \A k \in 1..Len(vc.args) : k > 3 \/ IsIntLiteral(vc.args[k])
seq_bad_arg == vc.args[CHOOSE k \in 1..Len(vc.args) :
                         /\ ~IsIntLiteral(vc.args[k])
                         /\ \A j \in 1..(k - 1) : IsIntLiteral(vc.args[j])]
seq_first == IF Len(vc.args) = 1 THEN 1 ELSE ParseInt(vc.args[1])
seq_increment == IF Len(vc.args) <= 2 THEN 1 ELSE ParseInt(vc.args[2])
seq_last == IF Len(vc.args) = 1 THEN ParseInt(vc.args[1])
            ELSE IF Len(vc.args) = 2 THEN ParseInt(vc.args[2])
            ELSE ParseInt(vc.args[3])

\* What seq returns when it observes cancellation.
seq_cancelled_result == error_with_code(<<>>, CANCELLED_CODE)

\* seq: parse, then one loop iteration per step
seq ==
    /\ UNCHANGED chan
    /\ \/ /\ vc.pc = "body"
          /\ vc' = IF vc.args = <<>> THEN VcReturn(missing_operand_error(N_seq))
                   ELSE IF ~seq_args_ok
                   THEN VcReturn(error(M_seq_invalid \o seq_bad_arg \o <<"'", NL>>))
                   ELSE IF seq_increment = 0 THEN VcReturn(error(M_seq_zero))
                   ELSE [vc EXCEPT !.pc = "loop", !.current = seq_first,
                                   !.increment = seq_increment, !.last = seq_last]
       \/ /\ vc.pc = "loop"
          /\ vc' = IF (vc.increment > 0 /\ vc.current <= vc.last)
                      \/ (vc.increment < 0 /\ vc.current >= vc.last)
                   THEN IF ctx_is_cancelled THEN VcReturn(seq_cancelled_result)
                        ELSE [vc EXCEPT !.output = @ \o ToDecimal(vc.current) \o <<NL>>,
                                        !.current = @ + vc.increment]
                   ELSE VcReturn(success(vc.output))

\* One step of the handler in flight.
VcStep ==
    /\ vc.st = "running"
    /\ UNCHANGED <<emitter, global_state, lang, stream, scenario, VIRTUAL_COMMANDS_ENABLED,
                   cancel_flag, rx, proc, log, runner, pipeline, ret>>
    /\ \/ /\ vc.name = N_yes /\ vc.output_tx
          /\ yes_streaming
          /\ UNCHANGED cwd
       \/ /\ vc.name = N_yes /\ ~vc.output_tx
          /\ yes_buffered
          /\ UNCHANGED cwd
       \/ /\ vc.name = N_seq
          /\ seq
          /\ UNCHANGED cwd
       \/ /\ vc.name \notin LoopingNames
          /\ UNCHANGED chan
          /\ \E ext \in ExtResults :
                /\ vc' = [VcReturn(HandlerResult(vc.name, vc.args, vc.stdin, ext))
                             EXCEPT !.fs = changes_file_system(vc.name, vc.args)]
                /\ cwd' = IF vc.name = N_cd
                          THEN set_current_dir(cd_target(vc.args), ext.code = 0)
                          ELSE cwd

\* The consumer of the channel takes one chunk.
Recv ==
    /\ rx = "draining"
    /\ chan # <<>>
    /\ chan' = Tail(chan)
    /\ UNCHANGED <<cwd, emitter, global_state, lang, stream, scenario, VIRTUAL_COMMANDS_ENABLED, cancel_flag, vc, rx, proc, log,
                   runner, pipeline, ret>>

\* The consumer drops the Receiver.
DropReceiver ==
    /\ rx = "draining"
    /\ rx' = "dropped"
    /\ chan' = <<>>
    /\ UNCHANGED <<cwd, emitter, global_state, lang, stream, scenario, VIRTUAL_COMMANDS_ENABLED, cancel_flag, vc, proc, log,
                   runner, pipeline, ret>>

\* The caller's cancellation flag is set (one-shot).
Cancel ==
    /\ scenario = "direct"
    /\ ~cancel_flag
    /\ cancel_flag' = TRUE
    /\ UNCHANGED <<cwd, emitter, global_state, lang, stream, scenario, VIRTUAL_COMMANDS_ENABLED, vc, chan, rx, proc, log,
                   runner, pipeline, ret>>

\* commands::enable_virtual_commands
enable_virtual_commands ==
    /\ scenario # "direct"
    \* the flag is read at dispatch only: it changes between dispatches
    /\ vc.st = "none" /\ proc.st = "none"
    /\ ~VIRTUAL_COMMANDS_ENABLED
    /\ VIRTUAL_COMMANDS_ENABLED' = TRUE
    /\ UNCHANGED <<cwd, emitter, global_state, lang, stream, scenario, cancel_flag, vc, chan, rx, proc, log, runner, pipeline, ret>>

\* commands::disable_virtual_commands
disable_virtual_commands ==
    /\ scenario # "direct"
    \* the flag is read at dispatch only: it changes between dispatches
    /\ vc.st = "none" /\ proc.st = "none"
    /\ VIRTUAL_COMMANDS_ENABLED
    /\ VIRTUAL_COMMANDS_ENABLED' = FALSE
    /\ UNCHANGED <<cwd, emitter, global_state, lang, stream, scenario, cancel_flag, vc, chan, rx, proc, log, runner, pipeline, ret>>

\* ------------------------------------------------------- spawned process

\* What a child does: a sequence of writes <<fd, byte>> (fd 1 = stdout,
\* fd 2 = stderr), then exit with an exit code. The environment picks it.
W1(b) == <<1, b>>
W2(b) == <<2, b>>
\* A child that fills stderr beyond one pipe buffer before it exits.
ErrFlood == [k \in 1..(PipeCap + 1) |-> W2("e")]
\* The children the environment may run for a spawn: what they write, and
\* the code they exit with.
Child(prog, code) == [prog |-> prog, exit_code |-> code]
Children ==
    { Child(<<W1("x"), W1(NL)>>, 0),
      Child(<<W2("w"), W1("x")>>, 0),
      Child(<<W1("x"), W2("e"), W2(NL)>>, 2),
      Child(ErrFlood, 0) }

NoProc ==
    [st |-> "none", prog |-> <<>>, exit_code |-> 0, out |-> <<>>, err |-> <<>>,
     piped |-> FALSE, status |-> None,
     \* history: everything the child wrote to stdout / stderr
     wrote_out |-> <<>>, wrote_err |-> <<>>]

\* Command::spawn succeeded: the child runs prog; piped says whether its
\* stdout/stderr are pipes (otherwise inherited from the parent).
SpawnedProc(c, piped) ==
    [NoProc EXCEPT !.st = "running", !.prog = c.prog, !.exit_code = c.exit_code,
                   !.piped = piped]

\* The child performs its next write, or exits. A write to a full pipe blocks.
ChildStep ==
    /\ proc.st = "running"
    /\ UNCHANGED <<cwd, emitter, global_state, lang, stream, scenario, VIRTUAL_COMMANDS_ENABLED, cancel_flag, vc, chan, rx, log,
                   runner, pipeline, ret>>
    /\ IF proc.prog = <<>>
       THEN proc' = [proc EXCEPT !.st = "exited", !.status = Some(proc.exit_code)]
       ELSE LET op == Head(proc.prog) IN
            IF ~proc.piped
            THEN proc' = [proc EXCEPT !.prog = Tail(@)]
            ELSE IF op[1] = 1
            THEN /\ Len(proc.out) < PipeCap
                 /\ proc' = [proc EXCEPT !.prog = Tail(@), !.out = Append(@, op[2]),
                                         !.wrote_out = Append(@, op[2])]
            ELSE /\ Len(proc.err) < PipeCap
                 /\ proc' = [proc EXCEPT !.prog = Tail(@), !.err = Append(@, op[2]),
                                         !.wrote_err = Append(@, op[2])]

\* Child::start_kill: a running child dies by signal (no exit code).
Killed(p) == IF p.st = "running" THEN [p EXCEPT !.st = "exited", !.status = None] ELSE p

\* status.code().unwrap_or(-1)
status_code(p) == IF IsSome(p.status) THEN Unwrap(p.status) ELSE NO_STATUS_CODE

\* The reader at the other end of a pipe sees end-of-file.
AtEof(buf) == buf = <<>> /\ proc.st = "exited"

RECURSIVE LinesFrom(_, _, _)
LinesFrom(s, i, cur) ==
    IF i > Len(s) THEN (IF cur = <<>> THEN <<>> ELSE <<cur>>)
    ELSE IF s[i] = NL THEN <<cur>> \o LinesFrom(s, i + 1, <<>>)
    ELSE LinesFrom(s, i + 1, Append(cur, s[i]))

\* A line as AsyncBufReadExt::lines yields it: without "\n" and a final "\r".
StripCr(l) == IF l # <<>> /\ l[Len(l)] = CR THEN SubSeq(l, 1, Len(l) - 1) ELSE l

RECURSIVE PushLines(_)
PushLines(ls) == IF ls = <<>> THEN <<>> ELSE StripCr(Head(ls)) \o <<NL>> \o PushLines(Tail(ls))

\* ProcessRunner::run's loop over reader.next_line(): every line, then '\n'
collect_lines(raw) == PushLines(LinesFrom(raw, 1, <<>>))

\* ------------------------------------------------------------ history

LogVirtual(stage, cmd, name, args, stdin) ==
    [kind |-> "virtual", stage |-> stage, cmd |-> cmd, name |-> name, args |-> args,
     stdin |-> stdin, enabled |-> VIRTUAL_COMMANDS_ENABLED, ok |-> TRUE,
     result |-> success_empty]

\* One Command::spawn of the shell with script as its -c argument; stdin is
\* the content handed to the stdin writer task (None: nothing is written).
LogSpawn(stage, cmd, script, stdin, ok) ==
    [kind |-> "spawn", stage |-> stage, cmd |-> cmd, name |-> first_word(cmd),
     args |-> <<script>>, stdin |-> stdin, enabled |-> VIRTUAL_COMMANDS_ENABLED, ok |-> ok,
     result |-> success_empty]

\* A stage of a pipeline ended: res is what its handler returned, or what the
\* child wrote and the code it exited with.
LogExit(stage, res) ==
    [kind |-> "exit", stage |-> stage, cmd |-> <<>>, name |-> <<>>, args |-> <<>>,
     stdin |-> None, enabled |-> VIRTUAL_COMMANDS_ENABLED, ok |-> TRUE, result |-> res]

\* Return values of run()
Ok(res) == [ok |-> TRUE, value |-> res, error |-> ""]
Err(what) == [ok |-> FALSE, value |-> success_empty, error |-> what]

\* --------------------------------------------------------------- Pipeline

\* The commands the caller adds to a pipeline.
P_echo_a == <<"e", "c", "h", "o", " ", "a">>
P_false == <<"f", "a", "l", "s", "e">>
P_cat == <<"c", "a", "t">>
P_id == <<"i", "d">>
P_Cat == <<"C", "a", "t">>
P_seq_2 == <<"s", "e", "q", " ", "2">>
StageCommands == {P_echo_a, P_false, P_cat, P_id}
\* The contents the caller passes to Pipeline::stdin.
StdinContents == { <<"i", "n">> }

\* Pipeline::new
NewPipeline ==
    [commands |-> <<>>, stdin |-> None, pc |-> "new", i |-> 0,
     current_stdin |-> None, last_result |-> success_empty,
     accumulated_stderr |-> <<>>, stdout_content |-> <<>>, stderr_content |-> <<>>]

PipelineFrame == <<cwd, emitter, global_state, lang, stream, scenario, VIRTUAL_COMMANDS_ENABLED, cancel_flag, chan, rx, runner>>

\* Pipeline::add
PipelineAdd ==
    /\ scenario = "pipeline"
    /\ pipeline.pc = "new"
    /\ Len(pipeline.commands) < MaxStages
    /\ \E c \in StageCommands : pipeline' = [pipeline EXCEPT !.commands = Append(@, c)]
    /\ UNCHANGED <<PipelineFrame, vc, proc, log, ret>>

\* Pipeline::stdin
PipelineStdin ==
    /\ scenario = "pipeline"
    /\ pipeline.pc = "new"
    /\ pipeline.stdin = None
    /\ \E s \in StdinContents : pipeline' = [pipeline EXCEPT !.stdin = Some(s)]
    /\ UNCHANGED <<PipelineFrame, vc, proc, log, ret>>

\* Pipeline::run, up to the loop
PipelineRun ==
    /\ scenario = "pipeline"
    /\ pipeline.pc = "new"
    /\ IF pipeline.commands = <<>>
       THEN /\ ret' = Some(Ok(CommandResult(<<>>, M_no_commands, 1)))
            /\ pipeline' = [pipeline EXCEPT !.pc = "done"]
       ELSE /\ ret' = ret
            /\ pipeline' = [pipeline EXCEPT !.pc = "loop", !.i = 1,
                                            !.current_stdin = pipeline.stdin]
    /\ UNCHANGED <<PipelineFrame, vc, proc, log>>

\* The match of Pipeline::try_virtual_command on the command name.
pipeline_try_virtual_command(cmd_name) == cmd_name \in BuiltinNames

\* Whether Pipeline::run hands the stage to a virtual handler.
pipeline_dispatch_virtual(cmd_str) ==
    are_virtual_commands_enabled /\ pipeline_try_virtual_command(first_word(cmd_str))

\* pipeline_stage_stdin as a sequence would have it: the original stdin.
pipeline_stage_stdin_original == pipeline.stdin

\* The stdin Pipeline::run gives the stage it dispatches.
pipeline_stage_stdin == pipeline.current_stdin

\* One iteration of the loop starts: the stage is handed to its virtual
\* handler, or the shell is spawned for it (spawn may fail: `?` returns Err).
PipelineDispatch ==
    /\ pipeline.pc = "loop"
    /\ pipeline.i <= Len(pipeline.commands)
    /\ LET cmd_str == pipeline.commands[pipeline.i] IN
       IF pipeline_dispatch_virtual(cmd_str)
       THEN /\ vc' = InvokeHandler(first_word(cmd_str), args_of(cmd_str),
                                   pipeline_stage_stdin, FALSE, FALSE)
            /\ log' = Append(log, LogVirtual(pipeline.i, cmd_str, first_word(cmd_str),
                                             args_of(cmd_str), pipeline_stage_stdin))
            /\ pipeline' = [pipeline EXCEPT !.pc = "await_virtual"]
            /\ UNCHANGED <<proc, ret>>
       ELSE \E ok \in BOOLEAN :
            /\ log' = Append(log, LogSpawn(pipeline.i, cmd_str, cmd_str,
                                           pipeline_stage_stdin, ok))
            /\ vc' = vc
            /\ IF ok
               THEN /\ \E c \in Children : proc' = SpawnedProc(c, TRUE)
                    /\ pipeline' = [pipeline EXCEPT !.pc = "read_stdout",
                                        !.stdout_content = <<>>, !.stderr_content = <<>>]
                    /\ ret' = ret
               ELSE /\ proc' = proc
                    /\ pipeline' = [pipeline EXCEPT !.pc = "done"]
                    /\ ret' = Some(Err("io"))
    /\ UNCHANGED PipelineFrame

\* pipeline_after_stage as a pipefail-style loop would be: every stage runs.
pipeline_after_stage_run_all(res, kept) ==
    /\ ret' = ret
    /\ pipeline' = [pipeline EXCEPT !.pc = "loop", !.i = @ + 1,
                        !.current_stdin = Some(res.stdout),
                        !.accumulated_stderr = @ \o res.stderr,
                        !.last_result = kept]

\* pipeline_after_stage as a loop that honours pipefail would be: with the
\* option set every stage runs, without it the first failure returns.
pipeline_after_stage_honouring_pipefail(res, kept) ==
    IF res.code # 0 /\ ~global_state.shell_settings.pipefail
    THEN /\ ret' = Some(Ok(CommandResult(res.stdout,
                                         pipeline.accumulated_stderr \o res.stderr,
                                         res.code)))
         /\ pipeline' = [pipeline EXCEPT !.pc = "done"]
    ELSE /\ ret' = ret
         /\ pipeline' = [pipeline EXCEPT !.pc = "loop", !.i = @ + 1,
                             !.current_stdin = Some(res.stdout),
                             !.accumulated_stderr = @ \o res.stderr,
                             !.last_result = kept]

\* How Pipeline::run folds a finished stage (res) into its locals, or returns;
\* kept is what it stores in last_result.
pipeline_after_stage(res, kept) ==
    IF res.code # 0
    THEN /\ ret' = Some(Ok(CommandResult(res.stdout,
                                         pipeline.accumulated_stderr \o res.stderr,
                                         res.code)))
         /\ pipeline' = [pipeline EXCEPT !.pc = "done"]
    ELSE /\ ret' = ret
         /\ pipeline' = [pipeline EXCEPT !.pc = "loop", !.i = @ + 1,
                             !.current_stdin = Some(res.stdout),
                             !.accumulated_stderr = @ \o res.stderr,
                             !.last_result = kept]

\* The virtual handler of the stage returned.
PipelineVirtualDone ==
    /\ pipeline.pc = "await_virtual"
    /\ vc.st = "done"
    /\ pipeline_after_stage(vc.result, vc.result)
    /\ vc' = NoVc
    /\ log' = Append(log, LogExit(pipeline.i, vc.result))
    /\ UNCHANGED <<PipelineFrame, proc>>

\* stdout.read_to_string: takes what the pipe holds, until end-of-file
PipelineReadStdout ==
    /\ pipeline.pc = "read_stdout"
    /\ IF proc.out # <<>>
       THEN /\ pipeline' = [pipeline EXCEPT !.stdout_content = @ \o proc.out]
            /\ proc' = [proc EXCEPT !.out = <<>>]
       ELSE /\ AtEof(proc.out)
            /\ pipeline' = [pipeline EXCEPT !.pc = "read_stderr"]
            /\ proc' = proc
    /\ UNCHANGED <<PipelineFrame, vc, log, ret>>

\* stderr.read_to_string, after stdout reached end-of-file
PipelineReadStderr ==
    /\ pipeline.pc = "read_stderr"
    /\ IF proc.err # <<>>
       THEN /\ pipeline' = [pipeline EXCEPT !.stderr_content = @ \o proc.err]
            /\ proc' = [proc EXCEPT !.err = <<>>]
       ELSE /\ AtEof(proc.err)
            /\ pipeline' = [pipeline EXCEPT !.pc = "wait"]
            /\ proc' = proc
    /\ UNCHANGED <<PipelineFrame, vc, log, ret>>

\* child.wait(), then the stage is folded in (its CommandResult carries an
\* empty stderr: the stderr went to accumulated_stderr already)
PipelineWait ==
    /\ pipeline.pc = "wait"
    /\ proc.st = "exited"
    /\ pipeline_after_stage(CommandResult(pipeline.stdout_content,
                                          pipeline.stderr_content, status_code(proc)),
                            CommandResult(pipeline.stdout_content, <<>>,
                                          status_code(proc)))
    /\ proc' = NoProc
    /\ log' = Append(log, LogExit(pipeline.i, CommandResult(proc.wrote_out, proc.wrote_err,
                                                            status_code(proc))))
    /\ UNCHANGED <<PipelineFrame, vc>>

\* pipeline_final_result with the last stage's stderr in place of the sum.
pipeline_final_result_last_stderr ==
    CommandResult(pipeline.last_result.stdout, pipeline.last_result.stderr,
                  pipeline.last_result.code)

\* What Pipeline::run returns after the loop.
pipeline_final_result ==
    CommandResult(pipeline.last_result.stdout, pipeline.accumulated_stderr,
                  pipeline.last_result.code)

\* The loop is over: Ok(last stage's stdout and code, all the stderr)
PipelineFinish ==
    /\ pipeline.pc = "loop"
    /\ pipeline.i > Len(pipeline.commands)
    /\ ret' = Some(Ok(pipeline_final_result))
    /\ pipeline' = [pipeline EXCEPT !.pc = "done"]
    /\ UNCHANGED <<PipelineFrame, vc, proc, log>>

PipelineStep ==
    \/ PipelineDispatch
    \/ PipelineVirtualDone
    \/ PipelineReadStdout
    \/ PipelineReadStderr
    \/ PipelineWait
    \/ PipelineFinish

\* ---------------------------------------------------------- ProcessRunner

\* The command strings the caller constructs a ProcessRunner with.
R_true_and_false == <<"t", "r", "u", "e", " ", "&", "&", " ", "f", "a", "l", "s", "e">>
R_false_and_echo == <<"f", "a", "l", "s", "e", " ", "&", "&", " ", "e", "c", "h", "o", " ", "x">>
R_true_or_echo == <<"t", "r", "u", "e", " ", "|", "|", " ", "e", "c", "h", "o", " ", "x">>
R_echo_semi_echo == <<"e", "c", "h", "o", " ", "a", " ", ";", " ", "e", "c", "h", "o", " ", "b">>
R_false_or_true == <<"f", "a", "l", "s", "e", " ", "|", "|", " ", "t", "r", "u", "e">>
R_echo_subst == <<"e", "c", "h", "o", " ", "$", "(", "i", "d", ")">>
R_id == <<"i", "d">>
R_id_glob == <<"i", "d", " ", "*">>
R_ECHO == <<"E", "C", "H", "O", " ", "a">>
R_yes == <<"y", "e", "s">>
R_exit_3 == <<"e", "x", "i", "t", " ", "3">>
R_cat == <<"c", "a", "t">>
R_pipe3 == <<"e", "c", "h", "o", " ", "x", " ", "|", " ", "f", "a", "l", "s", "e", " ", "|", " ", "e", "c", "h", "o", " ", "y">>
R_seq_2 == <<"s", "e", "q", " ", "2">>
R_empty == <<>>
R_subshell_cd == <<"(", "c", "d", " ", "d", ")">>
R_cd == <<"c", "d", " ", "d">>
R_echo_or_echo == <<"e", "c", "h", "o", " ", "a", " ", "|", "|", " ", "e", "c", "h", "o", " ", "b">>
RunnerCommands ==
    {R_true_and_false, R_false_and_echo, R_true_or_echo, R_echo_semi_echo, R_echo_or_echo,
     R_subshell_cd, R_cd,
     R_false_or_true, R_echo_subst, R_id, R_id_glob,
     R_ECHO, R_yes, R_exit_3, R_cat,
     R_pipe3, R_seq_2,
     R_empty}

\* RunOptions; stdin: None models Inherit / Pipe / Null (nothing is written),
\* Some(s) models StdinOption::Content(s).
RunOptions(mirror, capture, stdin, shell_operators) ==
    [mirror |-> mirror, capture |-> capture, stdin |-> stdin,
     shell_operators |-> shell_operators]
\* impl Default for RunOptions
DefaultOptions == RunOptions(TRUE, TRUE, None, TRUE)
RunnerOptions ==
    { DefaultOptions,
      RunOptions(FALSE, FALSE, None, TRUE),
      RunOptions(FALSE, TRUE, Some(<<"i", "n">>), TRUE),
      RunOptions(TRUE, TRUE, None, FALSE) }

\* ProcessRunner::new
NewRunner(cmd, options) ==
    [command |-> cmd, options |-> options, child |-> FALSE, result |-> None,
     started |-> FALSE, finished |-> FALSE, cancelled |-> FALSE, pc |-> "idle",
     stdout_read |-> <<>>, stderr_read |-> <<>>]

RunnerFrame == <<cwd, emitter, global_state, lang, stream, scenario, VIRTUAL_COMMANDS_ENABLED, cancel_flag, chan, rx, pipeline>>

\* runner_try_virtual_command without the check of the enable flag.
runner_try_virtual_command_unchecked(cmd_name) == cmd_name \in BuiltinNames

\* ProcessRunner::try_virtual_command: Some(..) iff the flag is set and the
\* name is one of the match arms
runner_try_virtual_command(cmd_name) ==
    are_virtual_commands_enabled /\ cmd_name \in BuiltinNames

\* The -c argument ProcessRunner::start passes to the shell.
runner_shell_arg == runner.command

\* The body of ProcessRunner::start when the runner was not started: the
\* command goes to its virtual handler (pc becomes pcv until it returns), or
\* the shell is spawned (pc becomes pcs), or spawn fails and Err is returned.
start_body(pcv, pcs) ==
    LET first == first_word(runner.command) IN
    IF runner_try_virtual_command(first)
    THEN /\ vc' = InvokeHandler(first, args_of(runner.command), runner.options.stdin,
                                TRUE, FALSE)
         /\ log' = Append(log, LogVirtual(1, runner.command, first,
                                          args_of(runner.command), runner.options.stdin))
         /\ runner' = [runner EXCEPT !.started = TRUE, !.pc = pcv]
         /\ UNCHANGED <<proc, ret>>
    ELSE \E ok \in BOOLEAN :
         /\ log' = Append(log, LogSpawn(1, runner.command, runner_shell_arg,
                                        runner.options.stdin, ok))
         /\ vc' = vc
         /\ IF ok
            THEN /\ \E c \in Children :
                       proc' = SpawnedProc(c, runner.options.capture
                                              \/ runner.options.mirror)
                 /\ runner' = [runner EXCEPT !.started = TRUE, !.child = TRUE, !.pc = pcs]
                 /\ ret' = ret
            ELSE /\ proc' = proc
                 /\ runner' = [runner EXCEPT !.started = TRUE, !.pc = "idle"]
                 /\ ret' = IF pcs = "idle" THEN ret ELSE Some(Err("io"))

\* The caller calls start().
RunnerStart ==
    /\ scenario = "runner"
    /\ runner.pc = "idle"
    /\ IF runner.started
       THEN UNCHANGED <<vc, proc, log, runner, ret>>
       ELSE start_body("start_virtual", "idle")
    /\ UNCHANGED RunnerFrame

\* run() with a start() that does not look at `started`.
RunnerRunRestarting ==
    /\ scenario = "runner"
    /\ runner.pc = "idle"
    /\ start_body("run_virtual", "run_body")
    /\ UNCHANGED RunnerFrame

\* The caller calls run(): start() first, then the body of run.
RunnerRun ==
    /\ scenario = "runner"
    /\ runner.pc = "idle"
    /\ IF runner.started
       THEN /\ runner' = [runner EXCEPT !.pc = "run_body"]
            /\ UNCHANGED <<vc, proc, log, ret>>
       ELSE start_body("run_virtual", "run_body")
    /\ UNCHANGED RunnerFrame

\* The virtual handler awaited inside start() returned.
RunnerVirtualDone ==
    /\ runner.pc \in {"start_virtual", "run_virtual"}
    /\ vc.st = "done"
    /\ runner' = [runner EXCEPT !.result = Some(vc.result), !.finished = TRUE,
                     !.pc = IF runner.pc = "start_virtual" THEN "idle" ELSE "run_body"]
    /\ vc' = NoVc
    /\ UNCHANGED <<RunnerFrame, proc, log, ret>>

\* run() after start() returned Ok: the stored result, or the child is taken
RunnerRunBody ==
    /\ runner.pc = "run_body"
    /\ IF IsSome(runner.result)
       THEN /\ ret' = Some(Ok(Unwrap(runner.result)))
            /\ runner' = [runner EXCEPT !.pc = "idle"]
       ELSE IF ~runner.child
       THEN /\ ret' = Some(Err("Process not started"))
            /\ runner' = [runner EXCEPT !.pc = "idle"]
       ELSE /\ ret' = ret
            /\ runner' = [runner EXCEPT !.child = FALSE,
                             !.stdout_read = <<>>, !.stderr_read = <<>>,
                             !.pc = IF proc.piped THEN "read_stdout" ELSE "wait"]
    /\ UNCHANGED <<RunnerFrame, vc, proc, log>>

\* The loop over child.stdout's lines, until end-of-file
RunnerReadStdout ==
    /\ runner.pc = "read_stdout"
    /\ IF proc.out # <<>>
       THEN /\ runner' = [runner EXCEPT !.stdout_read = @ \o proc.out]
            /\ proc' = [proc EXCEPT !.out = <<>>]
       ELSE /\ AtEof(proc.out)
            /\ runner' = [runner EXCEPT !.pc = "read_stderr"]
            /\ proc' = proc
    /\ UNCHANGED <<RunnerFrame, vc, log, ret>>

\* The loop over child.stderr's lines, after the stdout loop ended
RunnerReadStderr ==
    /\ runner.pc = "read_stderr"
    /\ IF proc.err # <<>>
       THEN /\ runner' = [runner EXCEPT !.stderr_read = @ \o proc.err]
            /\ proc' = [proc EXCEPT !.err = <<>>]
       ELSE /\ AtEof(proc.err)
            /\ runner' = [runner EXCEPT !.pc = "wait"]
            /\ proc' = proc
    /\ UNCHANGED <<RunnerFrame, vc, log, ret>>

\* The exit code run() reports for the child that exited.
runner_exit_code == status_code(proc)

\* The end of run() without the store into `finished`.
RunnerWaitUnfinished ==
    /\ runner.pc = "wait"
    /\ proc.st = "exited"
    /\ LET res == CommandResult(collect_lines(runner.stdout_read),
                                collect_lines(runner.stderr_read), runner_exit_code)
       IN  /\ runner' = [runner EXCEPT !.result = Some(res), !.pc = "idle"]
           /\ ret' = Some(Ok(res))
    /\ UNCHANGED <<RunnerFrame, vc, proc, log>>

\* child.wait(), then the result is stored and returned
RunnerWait ==
    /\ runner.pc = "wait"
    /\ proc.st = "exited"
    /\ LET res == CommandResult(collect_lines(runner.stdout_read),
                                collect_lines(runner.stderr_read), runner_exit_code)
       IN  /\ runner' = [runner EXCEPT !.result = Some(res), !.finished = TRUE,
                                       !.pc = "idle"]
           /\ ret' = Some(Ok(res))
    /\ UNCHANGED <<RunnerFrame, vc, proc, log>>

\* A kill that flips the flag instead of setting it.
RunnerKillToggle ==
    /\ scenario = "runner"
    /\ runner.pc = "idle"
    /\ runner' = [runner EXCEPT !.cancelled = ~runner.cancelled]
    /\ proc' = IF runner.child THEN Killed(proc) ELSE proc
    /\ UNCHANGED <<RunnerFrame, vc, log, ret>>

\* ProcessRunner::kill (it takes &mut self: never while start or run is in flight)
RunnerKill ==
    /\ scenario = "runner"
    /\ runner.pc = "idle"
    /\ runner' = [runner EXCEPT !.cancelled = TRUE]
    /\ proc' = IF runner.child THEN Killed(proc) ELSE proc
    /\ UNCHANGED <<RunnerFrame, vc, log, ret>>

RunnerStep ==
    \/ RunnerVirtualDone
    \/ RunnerRunBody
    \/ RunnerReadStdout
    \/ RunnerReadStderr
    \/ RunnerWait

\* ------------------------------------------- handlers called directly

\* The argument lists the caller passes to yes and seq.
YesArgs == { <<>>, << <<"h">> >> }
SeqArgs ==
    { <<>>, << <<"3">> >>, << <<"2">>, <<"3">> >>, << <<"3">>, <<"-", "1">>, <<"2">> >>,
      << <<"x">> >>, << <<"1">>, <<"0">>, <<"3">> >> }

\* The handlers that require an argument, besides seq, and the argument
\* lists they are called with: none, a flag only, one operand, two.
OperandNames ==
    {N_mkdir, N_rm, N_touch, N_basename, N_dirname, N_which, N_cp, N_mv}
OperandArgs == { <<>>, << <<"-", "r">> >>, << <<"a">> >>, << <<"a">>, <<"b">> >> }

\* The caller awaits a handler with a CommandContext of its own.
DirectCall ==
    /\ scenario = "direct"
    /\ vc.st = "none"
    /\ ret = None
    /\ \E name \in LoopingNames \cup OperandNames,
          output_tx \in BOOLEAN, is_cancelled \in BOOLEAN :
       \E args \in (IF name = N_yes THEN YesArgs
                    ELSE IF name = N_seq THEN SeqArgs ELSE OperandArgs) :
          /\ vc' = InvokeHandler(name, args, None, output_tx, is_cancelled)
          /\ log' = Append(log, LogVirtual(1, <<>>, name, args, None))
          /\ rx' \in (IF output_tx THEN {"held", "draining"} ELSE {rx})
    /\ UNCHANGED <<cwd, emitter, global_state, lang, stream, scenario, VIRTUAL_COMMANDS_ENABLED, cancel_flag, chan, proc,
                   runner, pipeline, ret>>

\* The handler called directly returned to the caller.
DirectReturn ==
    /\ scenario = "direct"
    /\ vc.st = "done"
    /\ ret = None
    /\ ret' = Some(Ok(vc.result))
    /\ UNCHANGED <<cwd, emitter, global_state, lang, stream, scenario, VIRTUAL_COMMANDS_ENABLED, cancel_flag, vc, chan, rx, proc,
                   log, runner, pipeline>>

\* ------------------------------------------------- shell_parser: tokenize

SQ == "'"
DQ == "\""

\* Token { token_type, value }; TokenType::Word(w) carries w in value.
Token(token_type, value) == [token_type |-> token_type, value |-> value]
EofToken == Token("Eof", <<>>)

\* "&|;()<>".contains(c)
IsOperatorChar(c) == c \in {"&", "|", ";", "(", ")", "<", ">"}

\* The inner `while i < chars.len() && chars[i].is_whitespace()`; i counts
\* from 0 as in the source, chars[i] is chars[i + 1] here.
RECURSIVE skip_whitespace(_, _)
skip_whitespace(chars, i) ==
    IF i < Len(chars) /\ IsWhitespace(chars[i + 1])
    THEN skip_whitespace(chars, i + 1)
    ELSE i

\* The word loop of tokenize: [i, word] when the loop is left.
RECURSIVE scan_word(_, _, _, _, _)
scan_word(chars, i, word, in_quote, quote_char) ==
    IF i >= Len(chars) THEN [i |-> i, word |-> word]
    ELSE
    LET c == chars[i + 1] IN
    IF ~in_quote
    THEN IF c = DQ \/ c = SQ
         THEN scan_word(chars, i + 1, Append(word, c), TRUE, c)
         ELSE IF IsWhitespace(c) \/ IsOperatorChar(c)
         THEN [i |-> i, word |-> word]
         ELSE IF c = BSL /\ i + 1 < Len(chars)
         THEN scan_word(chars, i + 2, word \o <<c, chars[i + 2]>>, FALSE, quote_char)
         ELSE scan_word(chars, i + 1, Append(word, c), FALSE, quote_char)
    ELSE IF c = quote_char /\ chars[i] # BSL
         THEN scan_word(chars, i + 1, Append(word, c), FALSE, quote_char)
         ELSE IF c = BSL /\ i + 1 < Len(chars)
                 /\ (chars[i + 2] = quote_char \/ chars[i + 2] = BSL)
         THEN scan_word(chars, i + 2, word \o <<c, chars[i + 2]>>, TRUE, quote_char)
         ELSE scan_word(chars, i + 1, Append(word, c), TRUE, quote_char)

\* The locals of tokenize between two iterations of its outer loop;
\* returned is set when the Eof token was pushed and the list returned.
TokenizeState(i, tokens, returned) == [i |-> i, tokens |-> tokens, returned |-> returned]
TokenizeEntry == TokenizeState(0, <<>>, FALSE)

\* One iteration of the outer `while i < chars.len()` of tokenize, with
\* the push of Eof when the loop is left.
tokenize_iteration(chars, st) ==
    LET i == skip_whitespace(chars, st.i)
        two(a) == i + 1 < Len(chars) /\ chars[i + 1] = a /\ chars[i + 2] = a
        push(t, v, n) == TokenizeState(i + n, Append(st.tokens, Token(t, v)), FALSE)
    IN
    IF i >= Len(chars) THEN TokenizeState(i, Append(st.tokens, EofToken), TRUE)
    ELSE IF two("&") THEN push("And", <<"&", "&">>, 2)
    ELSE IF two("|") THEN push("Or", <<"|", "|">>, 2)
    ELSE IF chars[i + 1] = "|" THEN push("Pipe", <<"|">>, 1)
    ELSE IF chars[i + 1] = ";" THEN push("Semicolon", <<";">>, 1)
    ELSE IF chars[i + 1] = "(" THEN push("LParen", <<"(">>, 1)
    ELSE IF chars[i + 1] = ")" THEN push("RParen", <<")">>, 1)
    ELSE IF two(">") THEN push("RedirectAppend", <<">", ">">>, 2)
    ELSE IF chars[i + 1] = ">" THEN push("RedirectOut", <<">">>, 1)
    ELSE IF chars[i + 1] = "<" THEN push("RedirectIn", <<"<">>, 1)
    ELSE LET w == scan_word(chars, i, <<>>, FALSE, SP) IN
         IF w.word # <<>>
         THEN TokenizeState(w.i, Append(st.tokens, Token("Word", w.word)), FALSE)
         ELSE TokenizeState(w.i, st.tokens, FALSE)

\* tokenize as a function: the tokens it returns, or diverges when an
\* iteration leaves its locals as they were (the loop then never ends).
RECURSIVE tokenize_from(_, _)
tokenize_from(chars, st) ==
    IF st.returned THEN [diverges |-> FALSE, tokens |-> st.tokens]
    ELSE LET n == tokenize_iteration(chars, st) IN
         IF n = st THEN [diverges |-> TRUE, tokens |-> st.tokens]
         ELSE tokenize_from(chars, n)
tokenize(command) == tokenize_from(command, TokenizeEntry)

\* --------------------------------------------- shell_parser: ShellParser

\* ParsedArg { value, quoted, quote_char }
ParsedArg(value, quoted, quote_char) ==
    [value |-> value, quoted |-> quoted, quote_char |-> quote_char]
\* Redirect { redirect_type, target }
Redirect(redirect_type, target) == [redirect_type |-> redirect_type, target |-> target]

\* ParsedCommand: one record shape for the four variants; a Subshell keeps
\* its boxed command as the only element of commands.
ParsedCommand(type, cmd, args, redirects, commands, operators) ==
    [type |-> type, cmd |-> cmd, args |-> args, redirects |-> redirects,
     commands |-> commands, operators |-> operators]
ParsedSimple(cmd, args, redirects) == ParsedCommand("Simple", cmd, args, redirects, <<>>, <<>>)
ParsedSequence(commands, operators) ==
    ParsedCommand("Sequence", <<>>, <<>>, <<>>, commands, operators)
ParsedPipeline(commands) == ParsedCommand("Pipeline", <<>>, <<>>, <<>>, commands, <<>>)
ParsedSubshell(command) == ParsedCommand("Subshell", <<>>, <<>>, <<>>, <<command>>, <<>>)

\* What a parse method leaves: its Option<ParsedCommand>, the parser's pos,
\* and whether it panicked on the way.
Parsed(node, pos) == [node |-> node, pos |-> pos, panic |-> FALSE]
Panicked(pos) == [node |-> None, pos |-> pos, panic |-> TRUE]

\* ShellParser::current; pos counts from 0.
parser_current(tokens, pos) == IF pos < Len(tokens) THEN tokens[pos + 1] ELSE EofToken

\* word[1..word.len() - 1] panics when the word is one quote character.
arg_slice_panics(word) ==
    /\ Len(word) = 1
    /\ word[1] \in {DQ, SQ}
\* The closure of parse_simple_command that removes the quotes of a word.
parse_arg(word) ==
    IF \/ word[1] = DQ /\ word[Len(word)] = DQ
       \/ word[1] = SQ /\ word[Len(word)] = SQ
    THEN ParsedArg(SubSeq(word, 2, Len(word) - 1), TRUE, Some(word[1]))
    ELSE ParsedArg(word, FALSE, None)

\* A loop that pushes a redirect for every redirect operator, with an empty
\* target when no word follows it.
RECURSIVE simple_command_loop_keeping_bare(_, _, _, _)
simple_command_loop_keeping_bare(tokens, pos, words, redirects) ==
    LET t == parser_current(tokens, pos).token_type IN
    IF t = "Word"
    THEN simple_command_loop_keeping_bare(tokens, pos + 1,
                             Append(words, parser_current(tokens, pos).value), redirects)
    ELSE IF t \in {"RedirectOut", "RedirectAppend", "RedirectIn"}
    THEN IF parser_current(tokens, pos + 1).token_type = "Word"
         THEN simple_command_loop_keeping_bare(tokens, pos + 2, words,
                  Append(redirects, Redirect(t, parser_current(tokens, pos + 1).value)))
         ELSE simple_command_loop_keeping_bare(tokens, pos + 1, words,
                  Append(redirects, Redirect(t, <<>>)))
    ELSE [pos |-> pos, words |-> words, redirects |-> redirects]

\* The loop of parse_simple_command: [pos, words, redirects].
RECURSIVE simple_command_loop(_, _, _, _)
simple_command_loop(tokens, pos, words, redirects) ==
    LET t == parser_current(tokens, pos).token_type IN
    IF t = "Word"
    THEN simple_command_loop(tokens, pos + 1,
                             Append(words, parser_current(tokens, pos).value), redirects)
    ELSE IF t \in {"RedirectOut", "RedirectAppend", "RedirectIn"}
    THEN IF parser_current(tokens, pos + 1).token_type = "Word"
         THEN simple_command_loop(tokens, pos + 2, words,
                  Append(redirects, Redirect(t, parser_current(tokens, pos + 1).value)))
         ELSE simple_command_loop(tokens, pos + 1, words, redirects)
    ELSE [pos |-> pos, words |-> words, redirects |-> redirects]

\* ShellParser::parse_simple_command
parse_simple_command(tokens, pos) ==
    LET l == simple_command_loop(tokens, pos, <<>>, <<>>) IN
    IF l.words = <<>> THEN Parsed(None, l.pos)
    ELSE IF \E k \in 2..Len(l.words) : arg_slice_panics(l.words[k])
    THEN Panicked(l.pos)
    ELSE Parsed(Some(ParsedSimple(l.words[1],
                                  [k \in 1..(Len(l.words) - 1) |-> parse_arg(l.words[k + 1])],
                                  l.redirects)),
                l.pos)

\* A parser that takes && for a pipe as well.
is_pipe_token_or_and(t) == t \in {"Pipe", "And"}
\* matches!(self.current().token_type, TokenType::Pipe)
is_pipe_token(t) == t = "Pipe"

\* parse_sequence, parse_pipeline and parse_command call one another; the
\* three methods and the loops of the first two are the rules of one
\* recursive operator. A rule leaves [commands, operators, pos, panic]: a
\* method leaves its Option<ParsedCommand> in commands (empty for None), a
\* loop its vectors.
Left(commands, operators, pos, panic) ==
    [commands |-> commands, operators |-> operators, pos |-> pos, panic |-> panic]

RECURSIVE parse_rule(_, _, _, _, _)
parse_rule(rule, tokens, pos, commands, operators) ==
    LET t == parser_current(tokens, pos).token_type IN
    CASE rule = "parse_command" ->
           IF t = "LParen"
           THEN LET subshell == parse_rule("parse_sequence", tokens, pos + 1, <<>>, <<>>) IN
                IF subshell.panic THEN subshell
                ELSE LET p == IF parser_current(tokens, subshell.pos).token_type = "RParen"
                              THEN subshell.pos + 1 ELSE subshell.pos
                     IN  IF subshell.commands # <<>>
                         THEN Left(<<ParsedSubshell(subshell.commands[1])>>, <<>>, p, FALSE)
                         ELSE Left(<<>>, <<>>, p, FALSE)
           ELSE LET c == parse_simple_command(tokens, pos) IN
                Left(c.node, <<>>, c.pos, c.panic)
      [] rule = "pipeline_loop" ->
           IF is_pipe_token(t)
           THEN LET c == parse_rule("parse_command", tokens, pos + 1, <<>>, <<>>) IN
                IF c.panic THEN c
                ELSE parse_rule("pipeline_loop", tokens, c.pos, commands \o c.commands, <<>>)
           ELSE Left(commands, <<>>, pos, FALSE)
      [] rule = "parse_pipeline" ->
           LET first == parse_rule("parse_command", tokens, pos, <<>>, <<>>) IN
           IF first.panic THEN first
           ELSE LET l == parse_rule("pipeline_loop", tokens, first.pos, first.commands, <<>>) IN
                IF l.panic THEN l
                ELSE IF Len(l.commands) = 1 THEN l
                ELSE IF l.commands = <<>> THEN l
                ELSE Left(<<ParsedPipeline(l.commands)>>, <<>>, l.pos, FALSE)
      [] rule = "sequence_loop" ->
           IF t \in {"And", "Or", "Semicolon"}
           THEN LET c == parse_rule("parse_pipeline", tokens, pos + 1, <<>>, <<>>) IN
                IF c.panic THEN c
                ELSE parse_rule("sequence_loop", tokens, c.pos, commands \o c.commands,
                                Append(operators, t))
           ELSE Left(commands, operators, pos, FALSE)
      [] rule = "parse_sequence" ->
           LET first == parse_rule("parse_pipeline", tokens, pos, <<>>, <<>>) IN
           IF first.panic THEN first
           ELSE LET l == parse_rule("sequence_loop", tokens, first.pos, first.commands, <<>>) IN
                IF l.panic THEN l
                ELSE IF Len(l.commands) = 1 /\ l.operators = <<>> THEN l
                ELSE IF l.commands = <<>> THEN Left(<<>>, <<>>, l.pos, FALSE)
                ELSE Left(<<ParsedSequence(l.commands, l.operators)>>, <<>>, l.pos, FALSE)

\* What a method of the parser returns, from what its rule leaves.
Returned(l) == IF l.panic THEN Panicked(l.pos) ELSE Parsed(l.commands, l.pos)
\* ShellParser::parse_command
parse_command(tokens, pos) == Returned(parse_rule("parse_command", tokens, pos, <<>>, <<>>))
\* ShellParser::parse_pipeline
parse_pipeline(tokens, pos) == Returned(parse_rule("parse_pipeline", tokens, pos, <<>>, <<>>))
\* ShellParser::parse_sequence
parse_sequence(tokens, pos) == Returned(parse_rule("parse_sequence", tokens, pos, <<>>, <<>>))

\* ShellParser::parse on the tokens of ShellParser::new
parse(tokens) == parse_sequence(tokens, 0)

\* -------------------------------------------------------- quote, macros

\* The characters of the class [a-zA-Z0-9_\-./=,+@:] of quote's safe_pattern.
SafeChars ==
    { "a", "b", "c", "d", "e", "f", "g", "h", "i", "j", "k", "l", "m",
      "n", "o", "p", "q", "r", "s", "t", "u", "v", "w", "x", "y", "z",
      "A", "B", "C", "D", "E", "F", "G", "H", "I", "J", "K", "L", "M",
      "N", "O", "P", "Q", "R", "S", "T", "U", "V", "W", "X", "Y", "Z",
      "0", "1", "2", "3", "4", "5", "6", "7", "8", "9",
      "_", "-", ".", "/", "=", ",", "+", "@", ":" }
\* safe_pattern.is_match(value)
safe_pattern_is_match(value) ==
    /\ value # <<>>
    /\ \A k \in 1..Len(value) : value[k] \in SafeChars

\* quote::quote
quote(value) ==
    IF value = <<>> THEN <<SQ, SQ>>
    ELSE IF /\ value[1] = SQ /\ value[Len(value)] = SQ /\ Len(value) >= 2
            /\ ~Contains(SubSeq(value, 2, Len(value) - 1), <<SQ>>)
    THEN value
    ELSE IF value[1] = DQ /\ value[Len(value)] = DQ /\ Len(value) > 2
    THEN <<SQ>> \o value \o <<SQ>>
    ELSE IF safe_pattern_is_match(value) THEN value
    ELSE <<SQ>> \o Replace(value, <<SQ>>, <<SQ, BSL, SQ, SQ>>) \o <<SQ>>

\* macros::build_shell_command, and the loop of cmd!
RECURSIVE build_from(_, _, _)
build_from(parts, values, i) ==
    IF i > Len(parts) THEN <<>>
    ELSE parts[i] \o (IF i <= Len(values) THEN quote(values[i]) ELSE <<>>)
         \o build_from(parts, values, i + 1)
build_shell_command(parts, values) == build_from(parts, values, 1)

\* $fmt.split("{}") of cmd!
RECURSIVE split_placeholders(_, _, _)
split_placeholders(fmt, i, cur) ==
    IF i > Len(fmt) THEN <<cur>>
    ELSE IF MatchesAt(fmt, <<"{", "}">>, i)
    THEN <<cur>> \o split_placeholders(fmt, i + 2, <<>>)
    ELSE split_placeholders(fmt, i + 1, Append(cur, fmt[i]))
\* The command string cmd!(fmt, values...) hands to run
cmd_macro(fmt, values) == build_shell_command(split_placeholders(fmt, 1, <<>>), values)

\* ------------------------------------- calls of the parser and of quote

\* All strings over an alphabet up to a length.
StringsUpTo(chars, n) == UNION { [1..k -> chars] : k \in 0..n }

\* The characters command strings are drawn from, and the longer commands
\* taken from src/rust/tests/shell_parser.rs and tests/macros.rs.
CommandChars == {"a", " ", "&", "|", ";", "(", ")", SQ}
S_pipes_and == <<"a", " ", "|", " ", "b", " ", "&", "&", " ", "c", " ", "|", " ", "d">>
SampleCommands ==
    { S_pipes_and,
      <<"a", " ", "&", "&", " ", "b", " ", "|", "|", " ", "c", " ", ";", " ", "d">>,
      <<"(", "a", " ", "&", "&", " ", "b", ")", " ", "|", " ", "c">>,
      <<"a", " ", DQ, "b", " ", "c", DQ, " ", ">", " ", "f">>,
      <<"a", " ", ">", ">", " ", "f", " ", "<", " ", "g", " ", BSL, "&">> }
\* Commands with backslashes: `"a\\"|b`, `a\|b`, `"a\"|b"`, `\"a|b`, `'a\\'|b`.
S_quoted_backslashes == <<DQ, "a", BSL, BSL, DQ, "|", "b">>
EscapeCommands ==
    { S_quoted_backslashes,
      <<"a", BSL, "|", "b">>,
      <<DQ, "a", BSL, DQ, "|", "b", DQ>>,
      <<BSL, DQ, "a", "|", "b">>,
      <<SQ, "a", BSL, BSL, SQ, "|", "b">> }
\* Commands of words and redirect operators; the sample is `a > > f b <`.
RedirectChars == {"a", "f", " ", ">", "<"}
S_redirects == <<"a", " ", ">", " ", ">", " ", "f", " ", "b", " ", "<">>
RedirectCommands == StringsUpTo(RedirectChars, MaxCommandLen) \cup {S_redirects}
Commands ==
    StringsUpTo(CommandChars, MaxCommandLen) \cup SampleCommands \cup EscapeCommands
        \cup RedirectCommands

\* The values handed to quote, and the formats handed to cmd!.
ValueChars == {"a", " ", SQ, DQ, BSL}
Values == StringsUpTo(ValueChars, MaxValueLen)
Formats ==
    { <<"e", " ", "{", "}">>,
      <<"e", " ", "{", "}", " ", ";", " ", "l">>,
      <<"e", " ", "{", "}", " ", "{", "}", " ", "|", " ", "l">> }
\* The number of placeholders of a format.
placeholders(fmt) == Len(split_placeholders(fmt, 1, <<>>)) - 1

\* The strings handed to needs_real_shell: all short strings over the
\* characters of its markers, a letter and a quote, and the command of
\* src/rust/tests/shell_parser.rs that has operators only.
ScanChars == {BACKTICK, "$", "(", "{", "~", "*", "?", "[", "2", ">", "&", "<", "a", SQ}
S_operators_only ==
    <<"a", " ", "&", "&", " ", "b", " ", "|", " ", "c", " ", ";", " ", "d">>
ScanInputs == StringsUpTo(ScanChars, MaxScanLen) \cup {S_operators_only}

\* The echo commands run both ways: `echo ` and arguments made of a letter,
\* spaces and single quotes.
EchoChars == {"a", " ", SQ}
EchoCommands == { N_echo \o <<" ">> \o a : a \in StringsUpTo(EchoChars, MaxEchoLen) }

\* What `sh -c command` does with the command line before it runs echo:
\* it splits it into words at unquoted spaces and removes single quotes.
RECURSIVE sh_split(_, _, _, _, _)
sh_split(s, i, cur, in_word, quoted) ==
    IF i > Len(s) THEN (IF in_word THEN <<cur>> ELSE <<>>)
    ELSE IF quoted
    THEN (IF s[i] = SQ THEN sh_split(s, i + 1, cur, TRUE, FALSE)
          ELSE sh_split(s, i + 1, Append(cur, s[i]), TRUE, TRUE))
    ELSE IF s[i] = SQ THEN sh_split(s, i + 1, cur, TRUE, TRUE)
    ELSE IF s[i] = SP
    THEN (IF in_word THEN <<cur>> ELSE <<>>) \o sh_split(s, i + 1, <<>>, FALSE, FALSE)
    ELSE sh_split(s, i + 1, Append(cur, s[i]), TRUE, FALSE)
sh_words(s) == sh_split(s, 1, <<>>, FALSE, FALSE)

\* The stdout of the shell spawned with `-c command` for an echo command:
\* the shell's echo writes its arguments joined by a space, and a newline.
sh_c_stdout(command) == Join(Tail(sh_words(command)), <<SP>>) \o <<NL>>

\* The stdout ProcessRunner::run returns for a command: the handler's when
\* virtual commands are enabled and the first word names one, the spawned
\* shell's otherwise.
run_stdout(command, enabled) ==
    IF enabled /\ first_word(command) \in BuiltinNames
    THEN HandlerResult(first_word(command), args_of(command), None, success_empty).stdout
    ELSE sh_c_stdout(command)

\* A call in progress: mode "parse" is parse_shell_command(command), mode
\* "quote" parses the command made of a name and quote(value), mode
\* "build" tokenizes cmd!(fmt, values), mode "scan" is
\* needs_real_shell(command), mode "echo" runs command with virtual
\* commands enabled and then disabled.
LangCall(mode, st, command, fmt, values) ==
    [mode |-> mode, st |-> st, command |-> command, fmt |-> fmt, values |-> values,
     tok |-> TokenizeEntry, result |-> Parsed(None, 0), stdout |-> <<>>]
NoLang == LangCall("none", "new", <<>>, <<>>, <<>>)
LangFrame == <<cwd, emitter, global_state, stream, scenario, VIRTUAL_COMMANDS_ENABLED, cancel_flag, vc, chan, rx,
               proc, log, runner, pipeline, ret>>

\* The caller writes a command whose one argument is quote(value).
QuoteArgument ==
    /\ lang.mode = "quote" /\ lang.st = "new"
    /\ lang' = [lang EXCEPT !.command = <<"x", " ">> \o quote(lang.values[1]),
                            !.st = "tokenizing"]
    /\ UNCHANGED LangFrame

\* cmd!(fmt, values...) builds its command string.
BuildCommand ==
    /\ lang.mode = "build" /\ lang.st = "new"
    /\ lang' = [lang EXCEPT !.command = cmd_macro(lang.fmt, lang.values),
                            !.st = "tokenizing"]
    /\ UNCHANGED LangFrame

\* needs_real_shell returns.
NeedsRealShellStep ==
    /\ lang.mode = "scan" /\ lang.st = "new"
    /\ lang' = [lang EXCEPT
          !.st = IF needs_real_shell(lang.command) THEN "needs_shell" ELSE "no_shell"]
    /\ UNCHANGED LangFrame

\* Both runs of the command return; stdout holds what each captured.
EchoStep ==
    /\ lang.mode = "echo" /\ lang.st = "new"
    /\ lang' = [lang EXCEPT
          !.st = "echoed",
          !.stdout = <<run_stdout(lang.command, TRUE), run_stdout(lang.command, FALSE)>>]
    /\ UNCHANGED LangFrame

\* tokenize runs one iteration of its outer loop, or returns.
TokenizeStep ==
    /\ lang.st = "tokenizing"
    /\ LET n == tokenize_iteration(lang.command, lang.tok) IN
       lang' = [lang EXCEPT !.tok = n,
                            !.st = IF n.returned THEN "tokenized" ELSE "tokenizing"]
    /\ UNCHANGED LangFrame

\* ShellParser::parse on the tokens; a panic unwinds to the caller.
ParseStep ==
    /\ lang.st = "tokenized"
    /\ lang.mode \in {"parse", "quote"}
    /\ LET r == parse(lang.tok.tokens) IN
       lang' = [lang EXCEPT !.result = r,
                            !.st = IF r.panic THEN "panicked" ELSE "parsed"]
    /\ UNCHANGED LangFrame

\* ------------------------------------------------- events: StreamEmitter

\* Two of the values of EventType.
EventTypes == {"Stdout", "End"}
\* The tasks that call emit, possibly at the same time.
EmitTasks == {1, 2}

\* A listener stored in the map: id is the position of its registration
\* among all calls of on and once; wrapper says it is the closure once builds.
Listener(id, wrapper) == [id |-> id, wrapper |-> wrapper]

NoTask == [pc |-> "idle", event |-> "Stdout", i |-> 0, held |-> <<>>, calls |-> <<>>]

\* StreamEmitter::new; regs, cleared and runs record the history: every
\* registration made, the number of registrations made when event e was last
\* cleared by off or remove_all_listeners, and how many times the closure
\* given to once has run.
StreamEmitter_new ==
    [listeners |-> <<>>,
     called |-> <<>>,
     regs |-> <<>>,
     cleared |-> [e \in EventTypes |-> 0],
     runs |-> <<>>,
     emits |-> 0,
     tasks |-> [t \in EmitTasks |-> NoTask]]
NoEmitter == StreamEmitter_new

\* listeners.get(&event), as emit and listener_count use it
event_listeners_any(event) ==
    IF DOMAIN emitter.listeners = {} THEN <<>>
    ELSE LET RECURSIVE All(_)
             All(S) == IF S = {} THEN <<>>
                       ELSE LET e == CHOOSE x \in S : TRUE
                            IN  emitter.listeners[e] \o All(S \ {e})
         IN  All(DOMAIN emitter.listeners)
event_listeners(event) ==
    IF event \in DOMAIN emitter.listeners THEN emitter.listeners[event] ELSE <<>>

\* StreamEmitter::listener_count
listener_count(event) == Len(event_listeners(event))

\* listeners.entry(event).or_default().push(listener)
listeners_push(map, event, listener) ==
    [f \in DOMAIN map \cup {event} |->
        IF f = event
        THEN Append(IF event \in DOMAIN map THEN map[event] ELSE <<>>, listener)
        ELSE map[f]]

\* listeners.remove(&event)
listeners_clear(map, event) == <<>>
listeners_remove(map, event) == [f \in DOMAIN map \ {event} |-> map[f]]

\* A task holds the read lock of listeners from the start of emit to its
\* return; write() waits until no read lock is held.
ReadLocked == \E t \in EmitTasks : emitter.tasks[t].pc \in {"loop", "listener"}

EmitterFrame == <<cwd, global_state, lang, stream, scenario, VIRTUAL_COMMANDS_ENABLED,
                  cancel_flag, vc, chan, rx, proc, log, runner, pipeline, ret>>

\* on and once register a listener; once wraps it in a closure with its own
\* `called` flag and registers the closure with on.
Register(event, wrapper) ==
    /\ ~ReadLocked
    /\ Len(emitter.regs) < MaxListeners
    /\ emitter' = [emitter EXCEPT
          !.listeners = listeners_push(@, event, Listener(Len(emitter.regs) + 1, wrapper)),
          !.called = Append(@, FALSE),
          !.runs = Append(@, 0),
          !.regs = Append(@, [event |-> event, once |-> wrapper])]
    /\ UNCHANGED EmitterFrame

\* StreamEmitter::on
EmitterOn ==
    /\ scenario = "events"
    /\ \E event \in EventTypes : Register(event, FALSE)

\* StreamEmitter::once
EmitterOnce ==
    /\ scenario = "events"
    /\ \E event \in EventTypes : Register(event, TRUE)

\* StreamEmitter::off; a call for an event with no registration since it
\* was last cleared changes nothing and is left out
EmitterOff ==
    /\ scenario = "events"
    /\ ~ReadLocked
    /\ \E event \in EventTypes :
          /\ emitter.cleared[event] < Len(emitter.regs)
          /\ emitter' = [emitter EXCEPT
                !.listeners = listeners_remove(@, event),
                !.cleared[event] = Len(emitter.regs)]
    /\ UNCHANGED EmitterFrame

\* StreamEmitter::remove_all_listeners; a call with no registration since
\* the last clearing changes nothing and is left out
EmitterRemoveAll ==
    /\ scenario = "events"
    /\ ~ReadLocked
    /\ \E e \in EventTypes : emitter.cleared[e] < Len(emitter.regs)
    /\ emitter' = [emitter EXCEPT
          !.listeners = <<>>,
          !.cleared = [e \in EventTypes |-> Len(emitter.regs)]]
    /\ UNCHANGED EmitterFrame

\* emit takes the read lock; `held` is the list it is about to walk. The
\* tasks are interchangeable: the lowest idle one makes the call.
EmitStart ==
    /\ scenario = "events"
    /\ emitter.emits < MaxEmits
    /\ \E t \in EmitTasks, event \in EventTypes :
          /\ emitter.tasks[t].pc = "idle"
          /\ \A u \in EmitTasks : u < t => emitter.tasks[u].pc # "idle"
          /\ emitter' = [emitter EXCEPT
                !.emits = @ + 1,
                !.tasks[t] = [pc |-> "loop", event |-> event, i |-> 1,
                              held |-> event_listeners(event), calls |-> <<>>]]
    /\ UNCHANGED EmitterFrame

\* The closure of once: called.swap(true) returned false
once_always(id) == TRUE
once_first_call(id) == ~emitter.called[id]

\* emit calls the next listener of the list, or returns when there is none.
\* A closure of once whose flag was already set returns at once; its swap
\* and the call that follows are consecutive statements and one step here.
EmitCall ==
    /\ scenario = "events"
    /\ \E t \in EmitTasks :
          LET task == emitter.tasks[t] IN
          /\ task.pc = "loop"
          /\ IF task.i > Len(task.held)
             THEN emitter' = [emitter EXCEPT !.tasks[t] = NoTask]
             ELSE LET l == task.held[task.i] IN
                  IF l.wrapper /\ ~once_first_call(l.id)
                  THEN emitter' = [emitter EXCEPT
                          !.tasks[t].calls = Append(@, l.id),
                          !.tasks[t].i = @ + 1]
                  ELSE emitter' = [emitter EXCEPT
                          !.called[l.id] = l.wrapper,
                          !.runs[l.id] = IF l.wrapper THEN @ + 1 ELSE @,
                          !.tasks[t].pc = "listener"]
    /\ UNCHANGED EmitterFrame

\* The listener that emit called returns.
EmitListenerReturn ==
    /\ scenario = "events"
    /\ \E t \in EmitTasks :
          LET task == emitter.tasks[t] IN
          /\ task.pc = "listener"
          /\ emitter' = [emitter EXCEPT
                !.tasks[t].calls = Append(@, task.held[task.i].id),
                !.tasks[t].i = @ + 1,
                !.tasks[t].pc = "loop"]
    /\ UNCHANGED EmitterFrame

\* --------------------------------------------------- state: GlobalState

\* ShellSettings::default
ShellSettings_default ==
    [errexit |-> FALSE, verbose |-> FALSE, xtrace |-> FALSE, pipefail |-> FALSE,
     nounset |-> FALSE, noglob |-> FALSE, allexport |-> FALSE]

\* ShellSettings::set: an unknown option name changes nothing
ShellSettings_set(settings, option, value) ==
    IF option \in {<<"e">>, <<"e", "r", "r", "e", "x", "i", "t">>}
    THEN [settings EXCEPT !.errexit = value]
    ELSE IF option \in {<<"v">>, <<"v", "e", "r", "b", "o", "s", "e">>}
    THEN [settings EXCEPT !.verbose = value]
    ELSE IF option \in {<<"x">>, <<"x", "t", "r", "a", "c", "e">>}
    THEN [settings EXCEPT !.xtrace = value]
    ELSE IF option \in {<<"u">>, <<"n", "o", "u", "n", "s", "e", "t">>}
    THEN [settings EXCEPT !.nounset = value]
    ELSE IF option \in {<<"f">>, <<"n", "o", "g", "l", "o", "b">>}
    THEN [settings EXCEPT !.noglob = value]
    ELSE IF option \in {<<"a">>, <<"a", "l", "l", "e", "x", "p", "o", "r", "t">>}
    THEN [settings EXCEPT !.allexport = value]
    ELSE IF option \in {<<"o", " ", "p", "i", "p", "e", "f", "a", "i", "l">>,
                        <<"p", "i", "p", "e", "f", "a", "i", "l">>}
    THEN [settings EXCEPT !.pipefail = value]
    ELSE settings

\* The option names the callers pass: one known, one unknown.
OptionNames == { <<"e">>, <<"z">> }
\* The tasks that call the GlobalState, possibly at the same time.
StateTasks == {1, 2}

\* A task inside a call: pc is where it stands, id the runner id it fetched,
\* undisturbed whether no other task has acted since its reset() began.
StateTask(pc, id, undisturbed) == [pc |-> pc, id |-> id, undisturbed |-> undisturbed]
ResetPcs == {"reset_runners", "reset_virtual", "reset_returned"}

\* GlobalState::new; returned, released and resets record the history: the
\* ids register_runner returned, in order, the returned ids unregistered
\* since, and the number of calls of reset.
GlobalState_new ==
    [shell_settings |-> ShellSettings_default,
     active_runners |-> {},
     next_runner_id |-> 1,
     signal_handlers_installed |-> FALSE,
     virtual_commands_enabled |-> TRUE,
     initial_cwd |-> Some(InitialCwd),
     returned |-> <<>>,
     released |-> {},
     resets |-> 0,
     tasks |-> [t \in StateTasks |-> StateTask("idle", 0, TRUE)]]
NoGlobalState == GlobalState_new

GlobalStateFrame == <<cwd, emitter, lang, stream, scenario, VIRTUAL_COMMANDS_ENABLED,
                      cancel_flag, vc, chan, rx, proc, log, runner, pipeline, ret>>

\* Task t moves to record r; a task in the middle of reset() is no longer
\* alone.
StateTasksAfter(t, r) ==
    [u \in StateTasks |->
        IF u = t THEN r
        ELSE IF global_state.tasks[u].pc \in ResetPcs
        THEN [global_state.tasks[u] EXCEPT !.undisturbed = FALSE]
        ELSE global_state.tasks[u]]
Idle(t) == global_state.tasks[t].pc = "idle"
ReturnedIds == { global_state.returned[k] : k \in 1..Len(global_state.returned) }

\* next_runner_id.fetch_add(1, SeqCst): the value it leaves in the counter
fetch_add_nothing(n) == n
fetch_add(n) == n + 1

\* register_runner: take the next id from the counter
RegisterFetch ==
    /\ scenario = "state"
    /\ global_state.next_runner_id <= MaxRunners
    /\ \E t \in StateTasks :
          /\ Idle(t)
          /\ global_state' = [global_state EXCEPT
                !.next_runner_id = fetch_add(@),
                !.tasks = StateTasksAfter(t,
                             StateTask("insert", global_state.next_runner_id, TRUE))]
    /\ UNCHANGED GlobalStateFrame

\* register_runner: insert the id into active_runners and return it
RegisterInsert ==
    /\ scenario = "state"
    /\ \E t \in StateTasks :
          /\ global_state.tasks[t].pc = "insert"
          /\ global_state' = [global_state EXCEPT
                !.active_runners = @ \cup {global_state.tasks[t].id},
                !.returned = Append(@, global_state.tasks[t].id),
                !.tasks = StateTasksAfter(t, StateTask("idle", 0, TRUE))]
    /\ UNCHANGED GlobalStateFrame

\* GlobalState::unregister_runner, with any id
UnregisterRunner ==
    /\ scenario = "state"
    /\ \E t \in StateTasks, id \in 1..MaxRunners :
          /\ Idle(t)
          /\ global_state' = [global_state EXCEPT
                !.active_runners = @ \ {id},
                !.released = @ \cup ({id} \cap ReturnedIds),
                !.tasks = StateTasksAfter(t, StateTask("idle", 0, TRUE))]
    /\ UNCHANGED GlobalStateFrame

\* GlobalState::active_runner_count
active_runner_count == Cardinality(global_state.active_runners)

\* GlobalState::set_signal_handlers_installed
SetSignalHandlersInstalled ==
    /\ scenario = "state"
    /\ \E t \in StateTasks, installed \in BOOLEAN :
          /\ Idle(t)
          /\ global_state' = [global_state EXCEPT
                !.signal_handlers_installed = installed,
                !.tasks = StateTasksAfter(t, StateTask("idle", 0, TRUE))]
    /\ UNCHANGED GlobalStateFrame

\* GlobalState::enable_virtual_commands and disable_virtual_commands
SetVirtualCommands ==
    /\ scenario = "state"
    /\ \E t \in StateTasks, enabled \in BOOLEAN :
          /\ Idle(t)
          /\ global_state' = [global_state EXCEPT
                !.virtual_commands_enabled = enabled,
                !.tasks = StateTasksAfter(t, StateTask("idle", 0, TRUE))]
    /\ UNCHANGED GlobalStateFrame

\* GlobalState::enable_shell_option and disable_shell_option
SetShellOption ==
    /\ scenario = "state"
    /\ \E t \in StateTasks, option \in OptionNames, value \in BOOLEAN :
          /\ Idle(t)
          /\ global_state' = [global_state EXCEPT
                !.shell_settings = ShellSettings_set(@, option, value),
                !.tasks = StateTasksAfter(t, StateTask("idle", 0, TRUE))]
    /\ UNCHANGED GlobalStateFrame

\* reset: what it stores into active_runners
keep_active_runners(runners) == runners
clear_active_runners(runners) == {}

\* GlobalState::reset, first statement: the shell settings
ResetSettings ==
    /\ scenario = "state"
    /\ global_state.resets < MaxResets
    /\ \E t \in StateTasks :
          /\ Idle(t)
          /\ global_state' = [global_state EXCEPT
                !.shell_settings = ShellSettings_default,
                !.resets = @ + 1,
                !.tasks = StateTasksAfter(t, StateTask("reset_runners", 0, TRUE))]
    /\ UNCHANGED GlobalStateFrame

\* GlobalState::reset, second statement: the active runners
ResetRunners ==
    /\ scenario = "state"
    /\ \E t \in StateTasks :
          /\ global_state.tasks[t].pc = "reset_runners"
          /\ global_state' = [global_state EXCEPT
                !.active_runners = clear_active_runners(@),
                !.tasks = StateTasksAfter(t,
                             [global_state.tasks[t] EXCEPT !.pc = "reset_virtual"])]
    /\ UNCHANGED GlobalStateFrame

\* GlobalState::reset, third statement: the virtual commands flag; reset returns
ResetVirtual ==
    /\ scenario = "state"
    /\ \E t \in StateTasks :
          /\ global_state.tasks[t].pc = "reset_virtual"
          /\ global_state' = [global_state EXCEPT
                !.virtual_commands_enabled = TRUE,
                !.tasks = StateTasksAfter(t,
                             [global_state.tasks[t] EXCEPT !.pc = "reset_returned"])]
    /\ UNCHANGED GlobalStateFrame

\* The caller of reset goes on.
ResetReturned ==
    /\ scenario = "state"
    /\ \E t \in StateTasks :
          /\ global_state.tasks[t].pc = "reset_returned"
          /\ global_state' = [global_state EXCEPT
                !.tasks = [@ EXCEPT ![t] = StateTask("idle", 0, TRUE)]]
    /\ UNCHANGED GlobalStateFrame

\* ------------------------------------------------ stream: StreamingRunner

\* What a child of the streaming runner does, in order: <<"drain">> reads
\* its stdin to end of file, <<fd, byte>> writes a byte to stdout (1) or
\* stderr (2); then it exits with exit_code.
Drain == <<"drain">>
OutFlood == [k \in 1..(PipeCap + 1) |-> W1("o")]
StreamChildren ==
    { Child(<<W1("x")>>, 0),
      Child(<<Drain, W1("x")>>, 0),
      Child(OutFlood \o <<Drain>>, 0),
      Child(<<W2("e"), W1("x")>>, 2),
      Child(<<W1("a"), W2("e"), W1("b"), W2("f"), W1("c")>>, 0) }
\* The stdin contents given to StreamingRunner::stdin: none, less than a
\* pipe buffer, more than a pipe buffer.
StreamStdins == { None, Some(<<"i">>), Some([k \in 1..(PipeCap + 1) |-> "i"]) }

\* OutputChunk
OutputChunk(kind, data, code) == [kind |-> kind, data |-> data, code |-> code]

\* The StreamingRunner, the task of run_streaming_process (task is where
\* it stands, to_write what write_all has still to write), the two reader
\* tasks, the channel of stream() (chunks), the child with its three
\* pipes (stdin_pipe and whether the engine holds its write end), and the
\* locals of collect.
NewStream(stdin_content, child, spawn_ok) ==
    [st |-> "new", stdin_content |-> stdin_content, command |-> child,
     spawn_ok |-> spawn_ok, task |-> "none", to_write |-> <<>>,
     stdout_reader |-> "none", stderr_reader |-> "none", chunks |-> <<>>,
     child |-> "none", prog |-> <<>>, stdin_pipe |-> <<>>, stdin_end |-> "null",
     stdout_pipe |-> <<>>, stderr_pipe |-> <<>>,
     stdout |-> <<>>, stderr |-> <<>>, exit_code |-> 0]
NoStream == NewStream(None, Child(<<>>, 0), TRUE)
StreamFrame == <<cwd, emitter, global_state, lang, scenario, VIRTUAL_COMMANDS_ENABLED, cancel_flag, vc, chan, rx,
                 proc, log, runner, pipeline>>

\* Every Sender of the channel is dropped: the task returned and no reader runs.
stream_channel_closed ==
    /\ stream.task \in {"returned_ok", "returned_err"}
    /\ stream.stdout_reader # "reading"
    /\ stream.stderr_reader # "reading"

\* StreamingRunner::collect calls stream(), which spawns the task.
StreamCollect ==
    /\ scenario = "stream"
    /\ stream.st = "new"
    /\ stream' = [stream EXCEPT !.st = "collecting", !.task = "spawn"]
    /\ UNCHANGED <<StreamFrame, ret>>

\* run_streaming_process, one await at a time.
run_streaming_process ==
    CASE stream.task = "spawn" ->
           IF ~stream.spawn_ok
           THEN stream' = [stream EXCEPT !.task = "returned_err"]
           ELSE stream' = [stream EXCEPT
                    !.child = "running",
                    !.prog = stream.command.prog,
                    !.stdin_end = IF IsSome(stream.stdin_content) THEN "open" ELSE "null",
                    !.to_write = IF IsSome(stream.stdin_content)
                                 THEN Unwrap(stream.stdin_content) ELSE <<>>,
                    !.task = IF IsSome(stream.stdin_content)
                             THEN "write_stdin" ELSE "spawn_readers"]
      [] stream.task = "write_stdin" ->
           IF stream.to_write = <<>> \/ stream.child = "exited"
           THEN stream' = [stream EXCEPT !.stdin_end = "closed", !.task = "spawn_readers"]
           ELSE /\ Len(stream.stdin_pipe) < PipeCap
                /\ stream' = [stream EXCEPT
                      !.stdin_pipe = Append(stream.stdin_pipe, Head(stream.to_write)),
                      !.to_write = Tail(stream.to_write)]
      [] stream.task = "spawn_readers" ->
           stream' = [stream EXCEPT !.stdout_reader = "reading",
                                    !.stderr_reader = "reading",
                                    !.task = "await_stdout"]
      [] stream.task = "await_stdout" ->
           /\ stream.stdout_reader = "done"
           /\ stream' = [stream EXCEPT !.task = "await_stderr"]
      [] stream.task = "await_stderr" ->
           /\ stream.stderr_reader = "done"
           /\ stream' = [stream EXCEPT !.task = "wait"]
      [] stream.task = "wait" ->
           /\ stream.child = "exited"
           /\ Len(stream.chunks) < ChannelCapacity
           /\ stream' = [stream EXCEPT
                 !.chunks = Append(stream.chunks,
                                   OutputChunk("Exit", <<>>, stream.command.exit_code)),
                 !.task = "returned_ok"]
      [] OTHER -> FALSE

StreamTaskStep ==
    /\ scenario = "stream"
    /\ run_streaming_process
    /\ UNCHANGED <<StreamFrame, ret>>

\* A reader whose chunk overtakes the chunks already in the channel.
StdoutReaderStepOvertaking ==
    /\ stream.stdout_reader = "reading"
    /\ IF stream.stdout_pipe # <<>>
       THEN /\ Len(stream.chunks) < ChannelCapacity
            /\ stream' = [stream EXCEPT
                  !.chunks = <<OutputChunk("Stdout", stream.stdout_pipe, 0)>>
                                 \o stream.chunks,
                  !.stdout_pipe = <<>>]
       ELSE /\ stream.child = "exited"
            /\ stream' = [stream EXCEPT !.stdout_reader = "done"]
    /\ UNCHANGED <<StreamFrame, ret>>

\* The reader task of the child's stdout: read what is there and send it,
\* or leave the loop at end of file.
StdoutReaderStep ==
    /\ stream.stdout_reader = "reading"
    /\ IF stream.stdout_pipe # <<>>
       THEN /\ Len(stream.chunks) < ChannelCapacity
            /\ stream' = [stream EXCEPT
                  !.chunks = Append(stream.chunks,
                                    OutputChunk("Stdout", stream.stdout_pipe, 0)),
                  !.stdout_pipe = <<>>]
       ELSE /\ stream.child = "exited"
            /\ stream' = [stream EXCEPT !.stdout_reader = "done"]
    /\ UNCHANGED <<StreamFrame, ret>>

\* The reader task of the child's stderr.
StderrReaderStep ==
    /\ stream.stderr_reader = "reading"
    /\ IF stream.stderr_pipe # <<>>
       THEN /\ Len(stream.chunks) < ChannelCapacity
            /\ stream' = [stream EXCEPT
                  !.chunks = Append(stream.chunks,
                                    OutputChunk("Stderr", stream.stderr_pipe, 0)),
                  !.stderr_pipe = <<>>]
       ELSE /\ stream.child = "exited"
            /\ stream' = [stream EXCEPT !.stderr_reader = "done"]
    /\ UNCHANGED <<StreamFrame, ret>>

\* The child of the streaming runner does the next thing of its program
\* when its pipes let it, and exits at the end.
StreamChildStep ==
    /\ stream.child = "running"
    /\ IF stream.prog = <<>>
       THEN stream' = [stream EXCEPT !.child = "exited"]
       ELSE LET op == Head(stream.prog) IN
            IF op = Drain
            THEN IF stream.stdin_pipe # <<>>
                 THEN stream' = [stream EXCEPT !.stdin_pipe = Tail(stream.stdin_pipe)]
                 ELSE /\ stream.stdin_end # "open"
                      /\ stream' = [stream EXCEPT !.prog = Tail(stream.prog)]
            ELSE IF op[1] = 1
            THEN /\ Len(stream.stdout_pipe) < PipeCap
                 /\ stream' = [stream EXCEPT !.stdout_pipe = Append(stream.stdout_pipe, op[2]),
                                             !.prog = Tail(stream.prog)]
            ELSE /\ Len(stream.stderr_pipe) < PipeCap
                 /\ stream' = [stream EXCEPT !.stderr_pipe = Append(stream.stderr_pipe, op[2]),
                                             !.prog = Tail(stream.prog)]
    /\ UNCHANGED <<StreamFrame, ret>>

\* One turn of the `while let Some(chunk) = stream.rx.recv().await` of
\* collect, and its return when the channel is closed and empty.
CollectStep ==
    /\ stream.st = "collecting"
    /\ IF stream.chunks # <<>>
       THEN LET chunk == Head(stream.chunks) IN
            /\ stream' = [stream EXCEPT
                  !.chunks = Tail(stream.chunks),
                  !.stdout = IF chunk.kind = "Stdout" THEN stream.stdout \o chunk.data
                             ELSE stream.stdout,
                  !.stderr = IF chunk.kind = "Stderr" THEN stream.stderr \o chunk.data
                             ELSE stream.stderr,
                  !.exit_code = IF chunk.kind = "Exit" THEN chunk.code
                                ELSE stream.exit_code]
            /\ UNCHANGED ret
       ELSE /\ stream_channel_closed
            /\ stream' = [stream EXCEPT !.st = "collected"]
            /\ ret' = Some(Ok(CommandResult(stream.stdout, stream.stderr, stream.exit_code)))
    /\ UNCHANGED StreamFrame

\* ------------------------------------------------------- specification

Init ==
    /\ scenario \in {"runner", "pipeline", "direct"}
    /\ VIRTUAL_COMMANDS_ENABLED = TRUE
    /\ cancel_flag = FALSE
    /\ vc = NoVc
    /\ chan = <<>>
    /\ rx = "held"
    /\ proc = NoProc
    /\ log = <<>>
    /\ IF scenario = "runner"
       THEN \E c \in RunnerCommands, o \in RunnerOptions : runner = NewRunner(c, o)
       ELSE runner = NewRunner(<<>>, DefaultOptions)
    /\ pipeline = NewPipeline
    /\ ret = None
    /\ lang = NoLang
    /\ stream = NoStream
    /\ cwd = InitialCwd
    /\ emitter = NoEmitter
    /\ global_state = NoGlobalState

Next ==
    \/ VcStep
    \/ Recv
    \/ DropReceiver
    \/ Cancel
    \/ enable_virtual_commands
    \/ disable_virtual_commands
    \/ ChildStep
    \/ PipelineAdd
    \/ PipelineStdin
    \/ PipelineRun
    \/ PipelineStep
    \/ RunnerStart
    \/ RunnerRun
    \/ RunnerKill
    \/ RunnerStep
    \/ DirectCall
    \/ DirectReturn

Spec == Init /\ [][Next]_vars

\* The scheduler runs every task that can run, and the child runs when it
\* can; the caller and the environment (start, run, kill, cancellation, the
\* enable flag, dropping the receiver) are under no obligation.
FairSpec ==
    /\ Spec
    /\ WF_vars(VcStep)
    /\ WF_vars(Recv)
    /\ WF_vars(ChildStep)
    /\ WF_vars(PipelineStep)
    /\ WF_vars(RunnerStep)
    /\ WF_vars(DirectReturn)


\* The state of everything no caller has touched yet.
Untouched ==
    /\ cwd = InitialCwd
    /\ VIRTUAL_COMMANDS_ENABLED = TRUE
    /\ cancel_flag = FALSE
    /\ vc = NoVc
    /\ chan = <<>>
    /\ rx = "held"
    /\ proc = NoProc
    /\ log = <<>>
    /\ runner = NewRunner(<<>>, DefaultOptions)
    /\ pipeline = NewPipeline
    /\ ret = None

\* The caller calls parse_shell_command on a command, or parses a command
\* with a quoted value, or tokenizes what cmd! builds.
LangInit ==
    /\ scenario = "lang"
    /\ Untouched
    /\ stream = NoStream
    /\ emitter = NoEmitter
    /\ global_state = NoGlobalState
    /\ \/ \E c \in Commands : lang = LangCall("parse", "tokenizing", c, <<>>, <<>>)
       \/ \E c \in ScanInputs : lang = LangCall("scan", "new", c, <<>>, <<>>)
       \/ \E c \in EchoCommands : lang = LangCall("echo", "new", c, <<>>, <<>>)
       \/ \E v \in Values : lang = LangCall("quote", "new", <<>>, <<>>, <<v>>)
       \/ \E f \in Formats :
          \E vs \in [1..placeholders(f) -> {v \in Values : Len(v) < MaxValueLen}] :
             lang = LangCall("build", "new", <<>>, f, vs)

LangNext ==
    \/ NeedsRealShellStep
    \/ EchoStep
    \/ QuoteArgument
    \/ BuildCommand
    \/ TokenizeStep
    \/ ParseStep

LangSpec == LangInit /\ [][LangNext]_vars

\* The caller's thread runs the call it made.
FairLangSpec ==
    /\ LangSpec
    /\ WF_vars(TokenizeStep)
    /\ WF_vars(ParseStep)

\* The caller builds a StreamingRunner; whether the shell can be spawned is
\* up to the operating system.
StreamInit ==
    /\ scenario = "stream"
    /\ Untouched
    /\ lang = NoLang
    /\ emitter = NoEmitter
    /\ global_state = NoGlobalState
    /\ \E i \in StreamStdins, c \in StreamChildren, ok \in BOOLEAN :
          stream = NewStream(i, c, ok)

StreamNext ==
    \/ StreamCollect
    \/ StreamTaskStep
    \/ StdoutReaderStep
    \/ StderrReaderStep
    \/ StreamChildStep
    \/ CollectStep

StreamSpec == StreamInit /\ [][StreamNext]_vars

\* The scheduler runs every task that can run, the child runs when it can,
\* and the caller awaits collect.
FairStreamSpec ==
    /\ StreamSpec
    /\ WF_vars(StreamCollect)
    /\ WF_vars(StreamTaskStep)
    /\ WF_vars(StdoutReaderStep)
    /\ WF_vars(StderrReaderStep)
    /\ WF_vars(StreamChildStep)
    /\ WF_vars(CollectStep)

\* The caller builds a StreamEmitter and shares it with its tasks.
EmitterInit ==
    /\ scenario = "events"
    /\ Untouched
    /\ lang = NoLang
    /\ stream = NoStream
    /\ emitter = StreamEmitter_new
    /\ global_state = NoGlobalState

EmitterNext ==
    \/ EmitterOn
    \/ EmitterOnce
    \/ EmitterOff
    \/ EmitterRemoveAll
    \/ EmitStart
    \/ EmitCall
    \/ EmitListenerReturn

EmitterSpec == EmitterInit /\ [][EmitterNext]_vars

\* The caller builds a GlobalState and shares it with its tasks.
StateInit ==
    /\ scenario = "state"
    /\ Untouched
    /\ lang = NoLang
    /\ stream = NoStream
    /\ emitter = NoEmitter
    /\ global_state = GlobalState_new

StateNext ==
    \/ RegisterFetch
    \/ RegisterInsert
    \/ UnregisterRunner
    \/ SetSignalHandlersInstalled
    \/ SetVirtualCommands
    \/ SetShellOption
    \/ ResetSettings
    \/ ResetRunners
    \/ ResetVirtual
    \/ ResetReturned

StateSpec == StateInit /\ [][StateNext]_vars

\* The option names of errexit and pipefail.
O_errexit == <<"e", "r", "r", "e", "x", "i", "t">>
O_pipefail == <<"p", "i", "p", "e", "f", "a", "i", "l">>
\* global_state().enable_shell_option / disable_shell_option, called by
\* the caller before it runs its pipeline.
PipelineShellOption ==
    /\ scenario = "pipeline"
    /\ pipeline.pc = "new"
    /\ \E option \in {O_errexit, O_pipefail}, value \in BOOLEAN :
          /\ ShellSettings_set(global_state.shell_settings, option, value)
                # global_state.shell_settings
          /\ global_state' = [global_state EXCEPT
                !.shell_settings = ShellSettings_set(@, option, value)]
    /\ UNCHANGED <<cwd, emitter, lang, stream, scenario, VIRTUAL_COMMANDS_ENABLED,
                   cancel_flag, vc, chan, rx, proc, log, runner, pipeline, ret>>

\* The caller builds a pipeline in a process whose GlobalState is new.
SettingsInit ==
    /\ scenario = "pipeline"
    /\ Untouched
    /\ lang = NoLang
    /\ stream = NoStream
    /\ emitter = NoEmitter
    /\ global_state = GlobalState_new

SettingsNext ==
    \/ PipelineShellOption
    \/ VcStep
    \/ ChildStep
    \/ PipelineAdd
    \/ PipelineStdin
    \/ PipelineRun
    \/ PipelineStep

SettingsSpec == SettingsInit /\ [][SettingsNext]_vars

\* ================================================================ claims

\* The dispatches (handler invocations and spawns) and the stage exits
\* recorded so far, in order.
Dispatches == SelectSeq(log, LAMBDA e : e.kind \in {"virtual", "spawn"})
Exits == SelectSeq(log, LAMBDA e : e.kind = "exit")

RECURSIVE StderrUpTo(_)
\* The stderr of the first k stages that ended, concatenated in stage order.
StderrUpTo(k) == IF k = 0 THEN <<>> ELSE StderrUpTo(k - 1) \o Exits[k].result.stderr

\* Stage k is the first stage that exited non-zero.
FirstFailure(k) ==
    /\ k \in 1..Len(Exits)
    /\ Exits[k].result.code # 0
    /\ \A j \in 1..(k - 1) : Exits[j].result.code = 0

\* C1: in Pipeline::run, once stage k is the first to exit non-zero, no
\* later stage is ever dispatched (no handler invoked, no process spawned),
\* and run has returned code = stage k's code, stdout = stage k's stdout,
\* stderr = the stderr of stages 1..k concatenated in stage order.
C1_FirstFailureShortCircuits ==
    scenario = "pipeline" =>
        \A k \in 1..Len(Exits) :
            FirstFailure(k) =>
                /\ Exits[k].stage = k
                /\ \A d \in 1..Len(Dispatches) : Dispatches[d].stage <= k
                /\ pipeline.pc = "done"
                /\ ret = Some(Ok(CommandResult(Exits[k].result.stdout, StderrUpTo(k),
                                               Exits[k].result.code)))

\* C1 (witness): a three-stage pipeline whose first stage exited 0 having
\* written to stderr, whose second stage exited non-zero with stderr of its
\* own, and which returned.
C1_Witness ==
    /\ scenario = "pipeline"
    /\ Len(pipeline.commands) = 3
    /\ pipeline.pc = "done"
    /\ Len(Exits) = 2
    /\ FirstFailure(2)
    /\ Exits[1].result.stderr # <<>>
    /\ Exits[2].result.stderr # <<>>
    /\ IsSome(ret)

\* C4: every stage dispatched by ProcessRunner::start or Pipeline::run goes
\* to a virtual handler iff the enable flag was set at dispatch and its
\* first word is, case-sensitively, a built-in name; otherwise the shell is
\* spawned for it, exactly once; no stage is dispatched twice (so never
\* both), and an error is returned only when a spawn itself failed (an
\* unknown name is no error).
C4_DispatchRule ==
    scenario \in {"runner", "pipeline"} =>
        /\ \A d \in 1..Len(Dispatches) :
              LET e == Dispatches[d] IN
              /\ (e.kind = "virtual") <=> (e.enabled /\ first_word(e.cmd) \in BuiltinNames)
              /\ e.kind = "virtual" => e.name = first_word(e.cmd)
              /\ \A d2 \in 1..Len(Dispatches) :
                    Dispatches[d2].stage = e.stage => d2 = d
        /\ (IsSome(ret) /\ ~Unwrap(ret).ok) =>
              \E d \in 1..Len(Dispatches) :
                  Dispatches[d].kind = "spawn" /\ ~Dispatches[d].ok

\* C4 (witness): one pipeline in which a built-in went to its handler, a
\* built-in was spawned because the flag was off, and an unknown name was
\* spawned while the flag was on, without any error.
C4_Witness ==
    /\ scenario = "pipeline"
    /\ pipeline.pc = "done"
    /\ IsSome(ret) /\ Unwrap(ret).ok
    /\ \E d \in 1..Len(Dispatches) : Dispatches[d].kind = "virtual"
    /\ \E d \in 1..Len(Dispatches) :
          /\ Dispatches[d].kind = "spawn"
          /\ first_word(Dispatches[d].cmd) \in BuiltinNames
          /\ ~Dispatches[d].enabled
    /\ \E d \in 1..Len(Dispatches) :
          /\ Dispatches[d].kind = "spawn"
          /\ first_word(Dispatches[d].cmd) \notin BuiltinNames
          /\ Dispatches[d].enabled

\* C5: in Pipeline::run, stage 1 is given the pipeline's initial stdin (None
\* if unset) and stage i+1 exactly the complete stdout of stage i; stage i+1
\* is dispatched only after stage i exited, and a spawned stage's exit is
\* awaited only once all it wrote to stdout has been captured.
C5_StdinChaining ==
    scenario = "pipeline" =>
        /\ \A x \in 1..Len(log) :
              log[x].kind \in {"virtual", "spawn"} =>
                  IF log[x].stage = 1
                  THEN log[x].stdin = pipeline.stdin
                  ELSE /\ x > 1
                       /\ log[x - 1].kind = "exit"
                       /\ log[x - 1].stage = log[x].stage - 1
                       /\ log[x].stdin = Some(log[x - 1].result.stdout)
        /\ pipeline.pc = "wait" =>
              /\ proc.out = <<>>
              /\ pipeline.stdout_content = proc.wrote_out

\* C5 (witness): a third stage was dispatched with the non-empty stdout of a
\* spawned second stage, in a pipeline that was given an initial stdin.
C5_Witness ==
    /\ scenario = "pipeline"
    /\ IsSome(pipeline.stdin)
    /\ \E x \in 2..Len(log) :
          /\ log[x].kind \in {"virtual", "spawn"}
          /\ log[x].stage = 3
          /\ log[x].stdin # Some(<<>>)
          /\ log[x].stdin # pipeline.stdin
          /\ \E y \in 1..x : log[y].kind = "spawn" /\ log[y].stage = 2

\* C6: in Pipeline::run, when every stage exited 0 the result has code 0,
\* the last stage's stdout, and the stderr of all stages concatenated in
\* stage order, for virtual and spawned stages alike.
C6_SuccessResult ==
    (/\ scenario = "pipeline"
     /\ pipeline.pc = "done"
     /\ pipeline.commands # <<>>
     /\ Len(Exits) = Len(pipeline.commands)
     /\ \A k \in 1..Len(Exits) : Exits[k].result.code = 0)
    => ret = Some(Ok(CommandResult(Exits[Len(Exits)].result.stdout,
                                   StderrUpTo(Len(Exits)), 0)))

\* C6 (witness): a pipeline of a virtual and two spawned stages, all exited
\* 0, the first spawned one having written to stderr, and the last one not.
C6_Witness ==
    /\ scenario = "pipeline"
    /\ pipeline.pc = "done"
    /\ Len(pipeline.commands) = 3
    /\ Len(Exits) = 3
    /\ \A k \in 1..3 : Exits[k].result.code = 0
    /\ \E d \in 1..Len(Dispatches) : Dispatches[d].kind = "virtual"
    /\ Exits[2].result.stderr # <<>>
    /\ Exits[3].result.stderr = <<>>
    /\ Dispatches[2].kind = "spawn"
    /\ Dispatches[3].kind = "spawn"

\* The operator words of a sequence.
SequenceOperators == { <<"&", "&">>, <<"|", "|">>, <<";">> }
\* The built-ins whose result is a function of their arguments and stdin.
PureNames == {N_echo, N_true, N_false, N_exit}

\* cmd has the form `a OP b`: one operator word, between two stages that
\* are pure built-ins, and no other shell syntax.
IsSequenceForm(cmd) ==
    LET w == split_whitespace(cmd) IN
    /\ ~needs_real_shell(cmd)
    /\ \E k \in 2..(Len(w) - 1) :
          /\ w[k] \in SequenceOperators
          /\ \A j \in 1..Len(w) : j # k => w[j] \notin (SequenceOperators \cup {<<"|">>})
    /\ w[1] \in PureNames
OperatorIndex(cmd) ==
    CHOOSE k \in 1..Len(split_whitespace(cmd)) : split_whitespace(cmd)[k] \in SequenceOperators
StageA(cmd) == SubSeq(split_whitespace(cmd), 1, OperatorIndex(cmd) - 1)
StageB(cmd) == SubSeq(split_whitespace(cmd), OperatorIndex(cmd) + 1,
                      Len(split_whitespace(cmd)))
\* What a stage (its words) returns when it is run as a command of its own.
StageResult(w, stdin) == HandlerResult(w[1], Tail(w), stdin, success_empty)
\* The stage (its words) was handed to its handler with its own arguments.
StageExecuted(w) ==
    \E d \in 1..Len(Dispatches) :
        /\ Dispatches[d].kind = "virtual"
        /\ Dispatches[d].name = w[1]
        /\ Dispatches[d].args = Tail(w)
\* Whether `a OP b` runs b, given what a returned.
RunsSecond(op, ra) ==
    \/ op = <<"&", "&">> /\ ra.code = 0
    \/ op = <<"|", "|">> /\ ra.code # 0
    \/ op = <<";">>

\* C2: a command `a OP b` (OP one of &&, ||, ;) run by ProcessRunner::run
\* executes b iff (&& and a exited 0) or (|| and a exited non-zero) or ;,
\* and returns the result of the last stage executed. Stated for the runs
\* the engine handles itself (no shell spawned), where stages are visible.
C2_SequenceOperators ==
    (/\ scenario = "runner"
     /\ IsSequenceForm(runner.command)
     /\ StageB(runner.command)[1] \in PureNames
     /\ IsSome(ret) /\ Unwrap(ret).ok
     /\ \A d \in 1..Len(Dispatches) : Dispatches[d].kind = "virtual")
    => LET a == StageA(runner.command)
           b == StageB(runner.command)
           op == split_whitespace(runner.command)[OperatorIndex(runner.command)]
           ra == StageResult(a, runner.options.stdin)
       IN  /\ StageExecuted(a)
           /\ StageExecuted(b) <=> RunsSecond(op, ra)
           /\ Unwrap(ret).value = IF RunsSecond(op, ra)
                                  THEN StageResult(b, runner.options.stdin)
                                  ELSE ra

\* C3: for a command with needs_real_shell true, ProcessRunner::start
\* invokes no virtual handler: all it does is spawn the shell once with the
\* whole command string as its -c argument.
C3_RealShellGetsWholeString ==
    (/\ scenario = "runner"
     /\ needs_real_shell(runner.command)
     /\ runner.started)
    => /\ Len(Dispatches) = 1
       /\ Dispatches[1].kind = "spawn"
       /\ Dispatches[1].args = <<runner.command>>

\* C7: once the cancellation predicate is true, a running yes that streams
\* into the bounded channel returns with exit code 130, whether or not a
\* consumer drains the channel.
C7_StreamingYesStopsOnCancel ==
    (/\ vc.st = "running"
     /\ vc.name = N_yes
     /\ vc.output_tx
     /\ ctx_is_cancelled)
    ~> (vc.st = "done" /\ vc.result.code = CANCELLED_CODE)

\* A looping handler without a sink returned before its loop was over,
\* because it observed cancellation, having produced output.
CancelledWithOutput ==
    /\ vc.st = "done"
    /\ vc.name \in LoopingNames
    /\ ~vc.output_tx
    /\ ctx_is_cancelled
    /\ vc.output # <<>>
    /\ IF vc.name = N_yes THEN vc.n < max_iterations
       ELSE /\ vc.pc = "loop"
            /\ \/ vc.increment > 0 /\ vc.current <= vc.last
               \/ vc.increment < 0 /\ vc.current >= vc.last

\* C8: when seq or yes (without a streaming sink) observe cancellation after
\* producing k >= 1 lines, the result has code 130 and its stdout holds
\* those k lines.
C8_CancelKeepsOutput ==
    CancelledWithOutput =>
        /\ vc.result.code = CANCELLED_CODE
        /\ vc.result.stdout = vc.output

\* C9: if kill() is called after start() spawned the process and before the
\* process exited, the following run() returns a result with code 130.
C9_KillGives130 ==
    (/\ scenario = "runner"
     /\ runner.cancelled
     /\ proc.st = "exited"
     /\ proc.status = None
     /\ IsSome(ret) /\ Unwrap(ret).ok)
    => Unwrap(ret).value.code = CANCELLED_CODE

\* ProcessRunner::run or Pipeline::run is reading a child's output or
\* awaiting its exit.
Collecting ==
    \/ runner.pc \in {"read_stdout", "read_stderr", "wait"}
    \/ pipeline.pc \in {"read_stdout", "read_stderr", "wait"}

\* C10: ProcessRunner::run and Pipeline::run drain a child's stdout and
\* stderr concurrently, so with bounded pipes the run returns even for a
\* child that writes more than a buffer to stderr before closing stdout.
C10_CollectingEnds == Collecting ~> ~Collecting

\* The Exit chunk was sent and the consumer received it.
ExitDelivered ==
    /\ stream.task = "returned_ok"
    /\ \A k \in 1..Len(stream.chunks) : stream.chunks[k].kind # "Exit"

\* C11: in run_streaming_process the stdin content is written alongside the
\* stdout/stderr readers, so with bounded pipes the stream eventually
\* delivers an Exit chunk, also for a child that writes output before it
\* has consumed all of its stdin.
C11_StreamDeliversExit ==
    (stream.st = "collecting" /\ stream.spawn_ok) ~> ExitDelivered

\* The token list holds exactly one Eof token, in last position.
OneEofLast(tokens) ==
    /\ tokens # <<>>
    /\ \A k \in 1..Len(tokens) : (tokens[k].token_type = "Eof") <=> (k = Len(tokens))

\* C12: for every input string tokenize terminates and returns a token list
\* with exactly one Eof token, in last position; also for inputs with a
\* single & not followed by another &.
C12_TokenizeReturnsEof ==
    (lang.st = "tokenizing") ~> (lang.tok.returned /\ OneEofLast(lang.tok.tokens))

\* C13: for every input string, also with an unterminated quote such as an
\* argument word that is one quote character, parse_shell_command returns
\* Some(AST) or None without panicking.
C13_ParseNeverPanics == lang.st # "panicked"

\* The nodes of an AST: the node itself and the nodes of its commands.
RECURSIVE Nodes(_)
Nodes(ast) == {ast} \cup UNION { Nodes(ast.commands[k]) : k \in 1..Len(ast.commands) }
\* parse_shell_command returned Some(AST) for the command given.
ParsedSome == lang.mode = "parse" /\ lang.st = "parsed" /\ IsSome(lang.result.node)
ParsedAst == Unwrap(lang.result.node)

\* C14: every Sequence node of an AST returned by parse_shell_command has
\* len(operators) = len(commands) - 1, also for inputs with a leading,
\* trailing or doubled &&, || or ;.
C14_SequenceOperatorCount ==
    ParsedSome =>
        \A n \in Nodes(ParsedAst) :
            n.type = "Sequence" => Len(n.operators) = Len(n.commands) - 1

\* C15: no AST returned by parse_shell_command has a Sequence or Pipeline
\* node with exactly one stage: a single stage is returned bare, also when
\* a trailing ;, &&, || or | follows it.
C15_NoOneStageWrapper ==
    ParsedSome =>
        \A n \in Nodes(ParsedAst) :
            n.type \in {"Sequence", "Pipeline"} => Len(n.commands) # 1

\* The tokens before Eof are words separated by single |, &&, || or ; : a
\* command of one-word stages with no parentheses, quotes or redirects.
IsPlainCommand(tokens) ==
    LET n == Len(tokens) - 1 IN
    /\ n % 2 = 1
    /\ \A k \in 1..n :
          IF k % 2 = 1 THEN tokens[k].token_type = "Word"
          ELSE tokens[k].token_type \in {"Pipe", "And", "Or", "Semicolon"}
\* The positions of the &&, || and ; tokens from position k on, in order.
RECURSIVE OperatorPositions(_, _)
OperatorPositions(tokens, k) ==
    IF k > Len(tokens) THEN <<>>
    ELSE (IF tokens[k].token_type \in {"And", "Or", "Semicolon"} THEN <<k>> ELSE <<>>)
         \o OperatorPositions(tokens, k + 1)
\* The grammar `pipeline := command ( PIPE command )*` on the words at
\* lo, lo + 2, .., hi of a plain command.
PipeGroup(tokens, lo, hi) ==
    LET stages == [j \in 1..((hi - lo) \div 2 + 1) |->
                      ParsedSimple(tokens[lo + 2 * (j - 1)].value, <<>>, <<>>)]
    IN  IF Len(stages) = 1 THEN stages[1] ELSE ParsedPipeline(stages)
\* The grammar `sequence := pipeline ( (AND|OR|SEMI) pipeline )*` on a
\* plain command: its pipe-connected groups and its operators, in order.
GrammarAst(tokens) ==
    LET ops == OperatorPositions(tokens, 1)
        cut == <<0>> \o ops \o <<Len(tokens)>>
    IN  IF ops = <<>> THEN PipeGroup(tokens, 1, Len(tokens) - 1)
        ELSE ParsedSequence(
                 [j \in 1..(Len(ops) + 1) |-> PipeGroup(tokens, cut[j] + 1, cut[j + 1] - 1)],
                 [j \in 1..Len(ops) |-> tokens[ops[j]].token_type])

\* C16: | binds tighter than &&, || and ; : every stage of a Pipeline node
\* is a Simple or Subshell node (a Sequence is inside a Pipeline only in a
\* Subshell), every stage of a Sequence is a pipe-connected group (a
\* Pipeline, or a bare Simple or Subshell), and for a plain command the
\* Sequence holds the groups and operators in source order, so that
\* `a | b && c | d` is Sequence{[Pipeline[a,b], Pipeline[c,d]], [And]}.
C16_PipeBindsTighter ==
    ParsedSome =>
        /\ \A n \in Nodes(ParsedAst) : \A k \in 1..Len(n.commands) :
              /\ n.type = "Pipeline" => n.commands[k].type \in {"Simple", "Subshell"}
              /\ n.type = "Sequence" =>
                    n.commands[k].type \in {"Simple", "Subshell", "Pipeline"}
        /\ IsPlainCommand(lang.tok.tokens) => ParsedAst = GrammarAst(lang.tok.tokens)

\* `a | b && c | d` was parsed into Sequence{[Pipeline[a,b], Pipeline[c,d]], [And]}.
C16_Witness ==
    /\ ParsedSome
    /\ lang.command = S_pipes_and
    /\ ParsedAst = ParsedSequence(
           << ParsedPipeline(<< ParsedSimple(<<"a">>, <<>>, <<>>),
                                ParsedSimple(<<"b">>, <<>>, <<>>) >>),
              ParsedPipeline(<< ParsedSimple(<<"c">>, <<>>, <<>>),
                                ParsedSimple(<<"d">>, <<>>, <<>>) >>) >>,
           <<"And">>)

\* C17: for every string s, tokenizing quote(s) as the argument of a command
\* and removing the quotes yields exactly one argument whose value is s,
\* also for s with single quotes, s already in single quotes, the empty
\* string and s ending in a backslash.
C17_QuoteRoundTrip ==
    (lang.mode = "quote" /\ lang.st \in {"parsed", "panicked"}) =>
        /\ IsSome(lang.result.node)
        /\ Unwrap(lang.result.node).type = "Simple"
        /\ Len(Unwrap(lang.result.node).args) = 1
        /\ Unwrap(lang.result.node).args[1].value = lang.values[1]

\* The kinds of the tokens of a list: Word, an operator, a redirect, Eof.
TokenKinds(tokens) == [k \in 1..Len(tokens) |-> tokens[k].token_type]
\* The token kinds of a format with a plain word for every placeholder.
FormatKinds(fmt) ==
    TokenKinds(tokenize(cmd_macro(fmt, [k \in 1..placeholders(fmt) |-> <<"a">>])).tokens)

\* C18: for a fixed format the token kinds of the command built by
\* build_shell_command / cmd! are the same for every choice of values: each
\* value is one Word and adds, removes or merges no token of the format.
C18_ValuesKeepTokenKinds ==
    (lang.mode = "build" /\ lang.st = "tokenized") =>
        TokenKinds(lang.tok.tokens) = FormatKinds(lang.fmt)

\* The spawn of the shell failed in the run that returned.
SpawnFailed ==
    \/ \E d \in 1..Len(log) : log[d].kind = "spawn" /\ ~log[d].ok
    \/ scenario = "stream" /\ stream.task = "returned_err"

\* C19: a failure to spawn the shell is never reported as success:
\* ProcessRunner::run, Pipeline::run and StreamingRunner::collect return an
\* error or a result with non-zero code and explanatory stderr, never a
\* result with code 0.
C19_SpawnFailureNotSuccess ==
    (SpawnFailed /\ IsSome(ret)) =>
        \/ ~Unwrap(ret).ok
        \/ /\ Unwrap(ret).value.code # 0
           /\ Unwrap(ret).value.stderr # <<>>

\* C20: `echo x | false | echo y` run by ProcessRunner::run follows pipeline
\* semantics: the stage `echo y` is never run and the result has code 1.
C20_TopLevelPipeline ==
    (/\ scenario = "runner"
     /\ runner.command = R_pipe3
     /\ IsSome(ret) /\ Unwrap(ret).ok)
    => /\ Unwrap(ret).value.code = 1
       /\ ~StageExecuted(<<N_echo, <<"y">>>>)

\* C21: a command `a && b` whose a exits non-zero, or `a || b` whose a
\* exits 0, run by ProcessRunner::run, never executes b and returns a's
\* exit code and a's stdout. Stated for the runs the engine handles itself
\* (no shell spawned), where stages are visible.
C21_ShortCircuit ==
    (/\ scenario = "runner"
     /\ IsSequenceForm(runner.command)
     /\ split_whitespace(runner.command)[OperatorIndex(runner.command)] # <<";">>
     /\ ~RunsSecond(split_whitespace(runner.command)[OperatorIndex(runner.command)],
                    StageResult(StageA(runner.command), runner.options.stdin))
     /\ IsSome(ret) /\ Unwrap(ret).ok
     /\ \A d \in 1..Len(Dispatches) : Dispatches[d].kind = "virtual")
    => LET ra == StageResult(StageA(runner.command), runner.options.stdin)
       IN  /\ ~StageExecuted(StageB(runner.command))
           /\ Unwrap(ret).value.code = ra.code
           /\ Unwrap(ret).value.stdout = ra.stdout

\* The command is a subshell that contains a cd, as `(cd d)`.
IsSubshellCd(command) ==
    /\ command # <<>>
    /\ command[1] = "("
    /\ command[Len(command)] = ")"
    /\ Contains(command, N_cd)

\* C22: after ProcessRunner::run of a command whose cd is enclosed in a
\* subshell, such as `(cd d)`, the working directory of this process, which
\* every later command observes, is the one before the run.
C22_SubshellKeepsCwd ==
    (scenario = "runner" /\ IsSubshellCd(runner.command)) => cwd = InitialCwd
\* The subshell command was handed to the shell and run has returned.
C22_Witness ==
    /\ scenario = "runner"
    /\ IsSubshellCd(runner.command)
    /\ IsSome(ret) /\ Unwrap(ret).ok
    /\ Len(Dispatches) = 1
    /\ Dispatches[1].kind = "spawn"
    /\ Dispatches[1].args = <<runner.command>>

\* The ids of a list of listeners, in order.
ListenerIds(ls) == [k \in 1..Len(ls) |-> ls[k].id]
\* The registrations made for an event since off(event) or
\* remove_all_listeners was last called, in the order they were made.
RegisteredSince(event) ==
    SelectSeq([k \in 1..Len(emitter.regs) |-> k],
              LAMBDA id : id > emitter.cleared[event] /\ emitter.regs[id].event = event)
\* The ids of the listeners that task t has called and that have returned.
Completed(t) == { emitter.tasks[t].calls[k] : k \in 1..Len(emitter.tasks[t].calls) }
Emitting(t) == emitter.tasks[t].pc \in {"loop", "listener"}

\* C23: emit(e, d) calls the listeners registered for e, and no listener of
\* another event, in registration order, each one after the one before it
\* has returned, and all of them before emit returns (emit returns from
\* the head of its loop when its index is past the list).
C23_EmitInRegistrationOrder ==
    \A t \in EmitTasks :
        LET task == emitter.tasks[t] IN
        Emitting(t) =>
            /\ ListenerIds(task.held) = RegisteredSince(task.event)
            /\ task.i \in 1..(Len(task.held) + 1)
            /\ task.calls = SubSeq(ListenerIds(task.held), 1, task.i - 1)
\* An emit is about to return having called two listeners, while the other
\* event has a listener too.
C23_Witness ==
    \E t \in EmitTasks :
        /\ emitter.tasks[t].pc = "loop"
        /\ emitter.tasks[t].i = Len(emitter.tasks[t].held) + 1
        /\ Len(emitter.tasks[t].calls) = 2
        /\ \E e \in EventTypes : e # emitter.tasks[t].event /\ listener_count(e) > 0

\* C24: the closure given to once runs at most once however many emits
\* reach it, concurrent ones included, and it has run (or is running) as
\* soon as one emit has gone past it.
C24_OnceAtMostOnce ==
    \A id \in 1..Len(emitter.regs) :
        emitter.regs[id].once =>
            /\ emitter.runs[id] <= 1
            /\ \A t \in EmitTasks : id \in Completed(t) => emitter.runs[id] = 1
\* Two emits are in progress at the same time and both have reached the
\* same once listener: one is inside it, the other has gone past it.
C24_Witness ==
    \E t, u \in EmitTasks :
        /\ t # u
        /\ emitter.tasks[t].pc = "listener"
        /\ emitter.tasks[t].held[emitter.tasks[t].i].wrapper
        /\ Emitting(u)
        /\ emitter.tasks[t].held[emitter.tasks[t].i].id \in Completed(u)

\* C25: a once listener that has been invoked is removed: when no emit is
\* in progress, listener_count(e) counts the registrations for e since it
\* was last cleared, except the once listeners that have run.
C25_OnceListenerRemoved ==
    ~ReadLocked =>
        \A e \in EventTypes :
            listener_count(e) =
                Len(SelectSeq(RegisteredSince(e),
                              LAMBDA id : ~(emitter.regs[id].once /\ emitter.runs[id] = 1)))

\* Only on has been used to register listeners.
OnlyOn == \A id \in 1..Len(emitter.regs) : ~emitter.regs[id].once

\* C26: after any sequence of on, off, remove_all_listeners and emit, the
\* listeners of e are the ones registered by on since off(e) or
\* remove_all_listeners was last called, so listener_count(e) is their
\* number and off(e) leaves the other events alone; an emit of e that
\* finds no such registration calls no listener.
C26_ListenerCount ==
    OnlyOn =>
        /\ \A e \in EventTypes :
              /\ ListenerIds(event_listeners(e)) = RegisteredSince(e)
              /\ listener_count(e) = Len(RegisteredSince(e))
        /\ \A t \in EmitTasks :
              (Emitting(t) /\ RegisteredSince(emitter.tasks[t].event) = <<>>)
              => (emitter.tasks[t].pc = "loop" /\ emitter.tasks[t].held = <<>>)
\* off was called for an event that had listeners while the other event
\* keeps its own, and an emit of the cleared event is in progress.
C26_Witness ==
    /\ OnlyOn
    /\ \E t \in EmitTasks, e \in EventTypes :
          /\ Emitting(t)
          /\ emitter.tasks[t].event = e
          /\ emitter.cleared[e] > 0
          /\ \E id \in 1..emitter.cleared[e] : emitter.regs[id].event = e
          /\ listener_count(e) = 0
          /\ \E f \in EventTypes : f # e /\ listener_count(f) > 0 /\ emitter.cleared[f] = 0

\* C27: register_runner never hands out an id twice, whether its calls run
\* one after another or at the same time, and also across reset; and as
\* long as reset was not called, once every call has returned the number of
\* active runners is the number of ids returned and not unregistered since.
C27_RunnerIdsUnique ==
    /\ \A j, k \in 1..Len(global_state.returned) :
          j # k => global_state.returned[j] # global_state.returned[k]
    /\ \A t, u \in StateTasks :
          (t # u /\ global_state.tasks[t].pc = "insert" /\ global_state.tasks[u].pc = "insert")
          => global_state.tasks[t].id # global_state.tasks[u].id
    /\ \A t \in StateTasks :
          global_state.tasks[t].pc = "insert" => global_state.tasks[t].id \notin ReturnedIds
    /\ (global_state.resets = 0 /\ \A t \in StateTasks : Idle(t))
       => active_runner_count = Cardinality(ReturnedIds \ global_state.released)
\* Two calls overlapped (the id fetched second was returned first), a
\* returned id has been unregistered, and every call has returned.
C27_Witness ==
    /\ global_state.resets = 0
    /\ \A t \in StateTasks : Idle(t)
    /\ Len(global_state.returned) = MaxRunners
    /\ global_state.returned[1] > global_state.returned[2]
    /\ global_state.released # {}
    /\ active_runner_count = MaxRunners - Cardinality(global_state.released)

\* Task t takes a step of reset().
ResetStep(t) ==
    <<global_state.tasks[t].pc, global_state.tasks[t].pc'>> \in
        { <<"idle", "reset_runners">>, <<"reset_runners", "reset_virtual">>,
          <<"reset_virtual", "reset_returned">> }

\* C28: when reset() returns, no other call having run meanwhile, the shell
\* settings are the defaults, no runner is active and virtual commands are
\* enabled; and no step of reset changes signal_handlers_installed,
\* initial_cwd or the runner id counter.
C28_ResetEffect ==
    /\ [](\A t \in StateTasks :
            (global_state.tasks[t].pc = "reset_returned" /\ global_state.tasks[t].undisturbed)
            => /\ global_state.shell_settings = ShellSettings_default
               /\ global_state.active_runners = {}
               /\ global_state.virtual_commands_enabled)
    /\ [][\A t \in StateTasks :
            ResetStep(t)
            => /\ global_state.signal_handlers_installed' = global_state.signal_handlers_installed
               /\ global_state.initial_cwd' = global_state.initial_cwd
               /\ global_state.next_runner_id' = global_state.next_runner_id]_vars
\* reset() has returned, undisturbed, on a state in which runners had been
\* registered and never unregistered and signal handlers were installed.
C28_Witness ==
    \E t \in StateTasks :
        /\ global_state.tasks[t].pc = "reset_returned"
        /\ global_state.tasks[t].undisturbed
        /\ Len(global_state.returned) = 2
        /\ global_state.released = {}
        /\ global_state.signal_handlers_installed
        /\ global_state.next_runner_id = 3
        /\ global_state.initial_cwd = Some(InitialCwd)

\* The markers of shell features the engine does not implement.
Markers ==
    { <<BACKTICK>>, <<"$", "(">>, <<"$", "{">>, <<"~">>, <<"*">>, <<"?">>, <<"[">>,
      <<"2", ">">>, <<"&", ">">>, <<">", "&">>, <<"<", "<">>, <<"<", "<", "<">> }

\* C29: needs_real_shell(s) is true iff s contains one of the markers
\* anywhere, inside quotes too; it is false for `a && b | c ; d`.
C29_NeedsRealShell ==
    (lang.mode = "scan" /\ lang.st # "new")
    => /\ lang.st = "needs_shell" <=> \E m \in Markers : Contains(lang.command, m)
       /\ lang.command = S_operators_only => lang.st = "no_shell"
\* needs_real_shell returned true for a glob character inside single quotes.
C29_Witness ==
    /\ lang.mode = "scan"
    /\ lang.st = "needs_shell"
    /\ lang.command = <<SQ, "?", SQ>>

\* The command has an even number of single quotes.
BalancedQuotes(command) == Len(SelectSeq(command, LAMBDA c : c = SQ)) % 2 = 0

\* C30: an echo command run with virtual commands enabled and run with
\* virtual commands disabled gives the same stdout, also when an argument
\* is written in single quotes and contains a space.
C30_EchoSameBothWays ==
    (lang.mode = "echo" /\ lang.st = "echoed" /\ BalancedQuotes(lang.command))
    => lang.stdout[1] = lang.stdout[2]

\* C31: a virtual command that requires an argument (mkdir, rm, touch,
\* basename, dirname, which, seq, cp, mv), called without any, returns exit
\* code 1, stderr `<cmd>: missing operand`, empty stdout, and does not get
\* to its file system calls.
C31_MissingOperand ==
    (/\ vc.st = "done"
     /\ vc.name \in OperandNames \cup {N_seq}
     /\ vc.args = <<>>)
    => /\ vc.result = CommandResult(<<>>, vc.name \o M_missing_operand, 1)
       /\ ~vc.fs

\* C32: there is one virtual-commands flag: once a call of
\* GlobalState::disable_virtual_commands or enable_virtual_commands has
\* returned (and no reset is under way), commands::are_virtual_commands_enabled
\* reports the value it stored, and ProcessRunner and Pipeline dispatch a
\* built-in such as echo to its handler exactly when that value is true.
C32_OneVirtualFlag ==
    (scenario = "state" /\ \A t \in StateTasks : Idle(t))
    => /\ are_virtual_commands_enabled = global_state.virtual_commands_enabled
       /\ runner_try_virtual_command(N_echo) = global_state.virtual_commands_enabled
       /\ pipeline_dispatch_virtual(N_echo) = global_state.virtual_commands_enabled

\* C33: a ProcessRunner executes its command at most once: whatever start()
\* and run() calls are made, at most one handler is invoked or one process
\* spawned; a run() that returns Ok returns the stored result, and no step
\* of a finished runner invokes or spawns anything.
C33_ExecutesAtMostOnce ==
    /\ [](scenario = "runner" =>
            /\ Len(Dispatches) <= 1
            /\ (IsSome(ret) /\ Unwrap(ret).ok)
               => (runner.finished /\ Unwrap(ret).value = Unwrap(runner.result)))
    /\ [][(scenario = "runner" /\ runner.finished) => log' = log]_vars
\* run() was called again on a runner that had already returned its result.
C33_Witness ==
    /\ scenario = "runner"
    /\ runner.finished
    /\ IsSome(ret) /\ Unwrap(ret).ok
    /\ runner.pc = "run_body"
    /\ Len(Dispatches) = 1

\* C34: the cancelled flag of a ProcessRunner is one-shot: once kill() has
\* set it, no later step (start, run, kill) clears it.
C34_CancelledOneShot ==
    [][runner.cancelled => runner.cancelled']_vars
\* run() is under way on a runner that was killed before.
C34_Witness ==
    /\ scenario = "runner"
    /\ runner.cancelled
    /\ runner.pc \in {"run_body", "read_stdout", "wait"}

\* C37: in every state of a ProcessRunner, finished holds iff a result is
\* stored, and finished implies started; started and finished never go back
\* to false; is_finished() is false on a new runner and true once run()
\* has returned a result.
C37_RunnerFlags ==
    /\ [](/\ runner.finished <=> IsSome(runner.result)
          /\ runner.finished => runner.started
          /\ (runner.pc = "idle" /\ log = <<>>) => ~runner.finished
          /\ (scenario = "runner" /\ IsSome(ret) /\ Unwrap(ret).ok) => runner.finished)
    /\ [][/\ runner.started => runner.started'
          /\ runner.finished => runner.finished']_vars
\* run() returned the result of a spawned process.
C37_Witness ==
    /\ scenario = "runner"
    /\ runner.finished /\ runner.started
    /\ IsSome(ret) /\ Unwrap(ret).ok
    /\ Len(Dispatches) = 1 /\ Dispatches[1].kind = "spawn"

\* The positions of the characters of s that act as operators when a
\* backslash escapes exactly the next character: the scan is at position i,
\* inside a region opened by the quote `region` (<<>> outside quotes).
RECURSIVE ActingOperators(_, _, _)
ActingOperators(s, i, region) ==
    IF i > Len(s) THEN {}
    ELSE IF s[i] = BSL /\ i < Len(s) THEN ActingOperators(s, i + 2, region)
    ELSE IF region = <<>>
    THEN IF s[i] \in {DQ, SQ} THEN ActingOperators(s, i + 1, <<s[i]>>)
         ELSE IF IsOperatorChar(s[i]) THEN {i} \cup ActingOperators(s, i + 1, region)
         ELSE ActingOperators(s, i + 1, region)
    ELSE IF s[i] = region[1] THEN ActingOperators(s, i + 1, <<>>)
         ELSE ActingOperators(s, i + 1, region)
\* The number of characters the operator tokens of a token list stand for.
RECURSIVE OperatorCharacters(_)
OperatorCharacters(tokens) ==
    IF tokens = <<>> THEN 0
    ELSE (IF tokens[1].token_type \in {"Word", "Eof"} THEN 0 ELSE Len(tokens[1].value))
         + OperatorCharacters(Tail(tokens))

\* C35: in tokenize a backslash escapes exactly the next character, inside
\* and outside quotes: the operator tokens returned stand for the operator
\* characters that are neither escaped nor inside a quoted region, where
\* only unescaped quotes open and close regions; so `"a\\"|b` has a Pipe
\* token after its quoted word.
C35_BackslashEscapesNext ==
    (lang.mode = "parse" /\ lang.tok.returned)
    => /\ OperatorCharacters(lang.tok.tokens)
            = Cardinality(ActingOperators(lang.command, 1, <<>>))
       /\ lang.command = S_quoted_backslashes
            => \E k \in 1..Len(lang.tok.tokens) : lang.tok.tokens[k].token_type = "Pipe"

\* The redirect operators among the token types.
RedirectTypes == {"RedirectOut", "RedirectAppend", "RedirectIn"}
\* The tokens are those of one simple command: words and redirect operators
\* up to Eof.
OneSimpleCommand(tokens) ==
    \A k \in 1..Len(tokens) :
        tokens[k].token_type \in {"Word", "Eof"} \cup RedirectTypes
\* The elements of a sequence at the positions of a set, in order.
RECURSIVE AtPositions(_, _, _)
AtPositions(items, positions, k) ==
    IF k > Len(items) THEN <<>>
    ELSE (IF k \in positions THEN <<items[k]>> ELSE <<>>) \o AtPositions(items, positions, k + 1)
\* The positions of the redirect operators immediately followed by a Word,
\* and of the words that do not follow a redirect operator.
RedirectPositions(tokens) ==
    { k \in 1..(Len(tokens) - 1) :
        tokens[k].token_type \in RedirectTypes /\ tokens[k + 1].token_type = "Word" }
WordPositions(tokens) ==
    { k \in 1..Len(tokens) :
        /\ tokens[k].token_type = "Word"
        /\ k > 1 => tokens[k - 1].token_type \notin RedirectTypes }
ExpectedRedirects(tokens) ==
    LET ops == AtPositions(tokens, RedirectPositions(tokens), 1)
        targets == AtPositions(tokens, { k + 1 : k \in RedirectPositions(tokens) }, 1)
    IN [k \in 1..Len(ops) |-> Redirect(ops[k].token_type, targets[k].value)]
ExpectedWords(tokens) ==
    LET ws == AtPositions(tokens, WordPositions(tokens), 1)
    IN [k \in 1..Len(ws) |-> ws[k].value]

ExitChunkLast ==
    \A k \in 1..Len(stream.chunks) :
        stream.chunks[k].kind = "Exit"
        => /\ k = Len(stream.chunks)
           /\ stream.chunks[k].code = stream.command.exit_code
           /\ stream.stdout_reader = "done" /\ stream.stderr_reader = "done"
           /\ stream_channel_closed
\* A stream of a spawned process that ended has delivered its Exit chunk.
EndedAfterExit ==
    (stream.st = "collected" /\ stream.spawn_ok)
    => /\ stream.task = "returned_ok"
       /\ IsSome(ret) /\ Unwrap(ret).ok
       /\ Unwrap(ret).value.code = stream.command.exit_code

\* C38: the stream of a successfully spawned process delivers exactly one
\* Exit chunk, with the exit code of the process, after every Stdout and
\* Stderr chunk (both readers are joined first), and then ends.
C38_OneExitThenEnd ==
    /\ []ExitChunkLast
    /\ []EndedAfterExit
    /\ (stream.st = "collecting" /\ stream.spawn_ok) ~> (stream.st = "collected")

\* The bytes a child program writes to a descriptor, in order.
RECURSIVE WrittenTo(_, _)
WrittenTo(prog, fd) ==
    IF prog = <<>> THEN <<>>
    ELSE (IF Head(prog) # Drain /\ Head(prog)[1] = fd THEN <<Head(prog)[2]>> ELSE <<>>)
         \o WrittenTo(Tail(prog), fd)
\* The data of the chunks of one kind in the channel, in order.
RECURSIVE InChannel(_, _)
InChannel(chunks, kind) ==
    IF chunks = <<>> THEN <<>>
    ELSE (IF Head(chunks).kind = kind THEN Head(chunks).data ELSE <<>>)
         \o InChannel(Tail(chunks), kind)

\* C39: under every interleaving of the child, the two readers and the
\* consumer, what was received of a stream, then what is in the channel,
\* then what is in the pipe, then what the child has still to write, is
\* what the child writes to that stream, in order; so a consumer that ran
\* to the end holds the child's stdout and stderr.
C39_PerStreamOrder ==
    (scenario = "stream" /\ stream.child # "none")
    => /\ stream.stdout \o InChannel(stream.chunks, "Stdout") \o stream.stdout_pipe
              \o WrittenTo(stream.prog, 1) = WrittenTo(stream.command.prog, 1)
       /\ stream.stderr \o InChannel(stream.chunks, "Stderr") \o stream.stderr_pipe
              \o WrittenTo(stream.prog, 2) = WrittenTo(stream.command.prog, 2)
       /\ stream.st = "collected"
            => /\ Unwrap(ret).value.stdout = WrittenTo(stream.command.prog, 1)
               /\ Unwrap(ret).value.stderr = WrittenTo(stream.command.prog, 2)
\* The child wrote a to stdout before e to stderr, the Stderr chunk is
\* ahead of the first Stdout chunk in the channel, and two Stdout chunks
\* are in the channel in the order written.
C39_Witness ==
    /\ scenario = "stream"
    /\ WrittenTo(stream.command.prog, 1) = <<"a", "b", "c">>
    /\ Len(stream.chunks) >= 3
    /\ stream.chunks[1].kind = "Stderr"
    /\ stream.chunks[2] = OutputChunk("Stdout", <<"a">>, 0)
    /\ stream.chunks[3].kind = "Stdout"

\* What a pipeline whose stages ended as recorded returns: the result at its
\* first failure, or the last stage's once every stage exited 0. Nothing
\* here reads the shell settings.
ExpectedOutcome ==
    IF \E k \in 1..Len(Exits) : FirstFailure(k)
    THEN LET k == CHOOSE j \in 1..Len(Exits) : FirstFailure(j)
         IN CommandResult(Exits[k].result.stdout, StderrUpTo(k), Exits[k].result.code)
    ELSE CommandResult(Exits[Len(Exits)].result.stdout, StderrUpTo(Len(Exits)), 0)

\* C40: whatever errexit and pipefail are set to, Pipeline::run executes
\* the stages 1, 2, ... in order up to the first one that exits non-zero
\* and returns that stage's result, or the last stage's when none failed;
\* with pipefail set a failure still ends the run at once.
C40_SettingsIgnored ==
    scenario = "pipeline" =>
        /\ \A d \in 1..Len(Dispatches) : Dispatches[d].stage = d
        /\ \A k \in 1..Len(Exits) :
              /\ Exits[k].stage = k
              /\ Exits[k].result.code # 0 => (k = Len(Exits) /\ Len(Dispatches) = k)
        /\ (pipeline.pc = "done" /\ pipeline.commands # <<>> /\ Unwrap(ret).ok)
              => /\ Unwrap(ret).value = ExpectedOutcome
                 /\ Len(Exits) = Len(pipeline.commands)
                      \/ Exits[Len(Exits)].result.code # 0
\* With pipefail and errexit set, the second of three stages failed and the
\* run returned without the third.
C40_Witness ==
    /\ scenario = "pipeline"
    /\ global_state.shell_settings.pipefail
    /\ global_state.shell_settings.errexit
    /\ pipeline.pc = "done"
    /\ Len(pipeline.commands) = 3
    /\ Len(Exits) = 2 /\ Len(Dispatches) = 2
    /\ FirstFailure(2)
    /\ IsSome(ret) /\ Unwrap(ret).ok /\ Unwrap(ret).value.code # 0

====
